---- MODULE Spec2Model ----
(***************************************************************************)
(* Model of the resilient retrieval pipeline of Web-DeepSearch:            *)
(*   app/circuit_breaker.py   CircuitBreaker, AIServiceCircuitBreaker      *)
(*   app/concurrent_scraper.py ConcurrentScraperManager                    *)
(*   app/cache_manager.py     CacheManager                                 *)
(***************************************************************************)
EXTENDS Integers, Sequences, FiniteSets, TLC

(***************************************************************************)
(* Bounds of the model.                                                    *)
(***************************************************************************)
MaxCalls == 6          \* calls made on one breaker
MaxTime == 120         \* last value of the clock, in seconds
TickStep == 30         \* seconds between two readings of the clock
MaxThreshold == 3      \* largest failure_threshold / success_threshold of SpecCB
MaxSources == 3        \* most ranked_sources passed to scrape_sources_parallel
MaxConcurrent == 2     \* largest max_concurrent
MaxMinQuality == 2     \* largest min_quality_sources
MaxWorkers == 2        \* threads of the executor that runs scrape_url
MaxSize == 2           \* largest max_size of a CacheManager
MaxCacheOps == 4       \* operations called on one CacheManager
MaxCacheTime == 30     \* last value of the clock of the cache, in seconds
MaxWarm == 1           \* most sources passed to warm_cache_for_query
MaxRequests == 2       \* requests made of one OptimizedSearchClient
MaxTop == 2            \* most top_sources of a request
MaxAgentSources == 1   \* most sources passed to synthesize_response

(***************************************************************************)
(* app/circuit_breaker.py                                                  *)
(***************************************************************************)
CLOSED == "closed"
OPEN == "open"
HALF_OPEN == "half_open"
CircuitState == {CLOSED, OPEN, HALF_OPEN}

None == "None"
\* Optional[float]: <<>> is None, <<t>> is the time t
NoTime == <<>>

\* CircuitBreakerConfig(failure_threshold, recovery_timeout, success_threshold)
CircuitBreakerConfig(ft, rt, st) ==
    [failure_threshold |-> ft, recovery_timeout |-> rt, success_threshold |-> st]

\* CircuitBreakerStats() together with CircuitBreaker.state after __init__
CircuitBreakerStats ==
    [state |-> CLOSED, failure_count |-> 0, success_count |-> 0,
     last_failure_time |-> NoTime, total_calls |-> 0, total_failures |-> 0]

\* AIServiceCircuitBreaker.__init__: the two breakers and their configurations
PRIMARY == "pollinations"
FALLBACK == "huggingface"
AIServiceConfig ==
    (PRIMARY :> CircuitBreakerConfig(3, 30, 2)) @@
    (FALLBACK :> CircuitBreakerConfig(5, 60, 2))

\* the breaker of the unit under test in SpecCB
SERVICE == "service"

VARIABLES
    now,          \* time.time()
    config,       \* breaker name -> CircuitBreakerConfig
    breakers,     \* breaker name -> state and stats of that CircuitBreaker
    lock,         \* breaker name -> who is inside `with self._lock`
    result,       \* outcome of the latest direct call()/reset() on a breaker
    streak,       \* breaker name -> failed calls since the last success or reset
    trials,       \* breaker name -> successful calls since it became HALF_OPEN
    cwf           \* the call_with_fallback invocation in progress and its outcome

cbvars == <<now, config, breakers, lock, result, streak, trials, cwf>>

VARIABLES
    mgr,                    \* ConcurrentScraperManager fields and the call's arguments
    task,                   \* source -> state of its _scrape_single_source task
    task_result,            \* source -> ScrapingResult its task returned
    fetch,                  \* source -> state of its scrape_url run in the executor
    value,                  \* asyncio.Semaphore._value
    done_queue,             \* asyncio.as_completed: finished tasks not yet yielded
    late,                   \* tasks admitted since the coordinator was last woken
    results,                \* scrape_sources_parallel: results
    quality_sources_count,  \* scrape_sources_parallel: quality_sources_count
    pc,                     \* scrape_sources_parallel: where the coordinator is
    early_terminated        \* line 97 was reached

scvars == <<mgr, task, task_result, fetch, value, done_queue, late, results,
            quality_sources_count, pc, early_terminated>>

VARIABLES
    cm,                     \* CacheManager: max_size, default_ttl; the threads using it
    cache,                  \* CacheManager._cache, its items in iteration order
    statistics,             \* CacheManager.statistics
    cache_lock,             \* CacheManager._lock: the thread holding it, or 0
    th,                     \* thread -> the operation it is in and where
    last_done,              \* the operation that last left the lock
    ops                     \* operations called so far

cachevars == <<cm, cache, statistics, cache_lock, th, last_done, ops>>

VARIABLES
    client                  \* OptimizedSearchClient: the request in progress, and
                            \* what its earlier requests fetched and cached

VARIABLES
    agent                   \* EnhancedAgent: the synthesize_response call in
                            \* progress and what the last one gave its caller

VARIABLES
    assessor,               \* ContentQualityAssessor: its thresholds, the content
                            \* gathered and what should_continue_scraping returned
    ranker                  \* SourceRanker: the search results and the query
                            \* analysis given to rank_sources, and what it returned
purevars == <<assessor, ranker>>

vars == <<now, config, breakers, lock, result, streak, trials, cwf,
          mgr, task, task_result, fetch, value, done_queue, late, results,
          quality_sources_count, pc, early_terminated,
          cm, cache, statistics, cache_lock, th, last_done, ops, client,
          agent, assessor, ranker>>

NoResult == [op |-> "none", name |-> None, outcome |-> "none", invoked |-> FALSE,
             from |-> "none"]
CwfIdle == [pc |-> "idle", primary |-> "none", fallback |-> "none", seen |-> "none"]

\* _should_attempt_reset that lets every call through
should_attempt_reset_always(b, cfg, t) == TRUE

\* CircuitBreaker._should_attempt_reset
should_attempt_reset(b, cfg, t) ==
    IF b.last_failure_time = NoTime
    THEN TRUE
    ELSE t - b.last_failure_time[1] >= cfg.recovery_timeout

\* _on_success that keeps failure_count
on_success_keeps_failures(b, cfg) ==
    LET b1 == [b EXCEPT !.success_count = b.success_count + 1]
    IN  IF b1.state = HALF_OPEN /\ b1.success_count >= cfg.success_threshold
        THEN [b1 EXCEPT !.state = CLOSED, !.success_count = 0]
        ELSE b1

\* _on_success that closes one success late
on_success_late(b, cfg) ==
    LET b1 == [b EXCEPT !.failure_count = 0, !.success_count = b.success_count + 1]
    IN  IF b1.state = HALF_OPEN /\ b1.success_count > cfg.success_threshold
        THEN [b1 EXCEPT !.state = CLOSED, !.success_count = 0]
        ELSE b1

\* CircuitBreaker._on_success
on_success(b, cfg) ==
    LET b1 == [b EXCEPT !.failure_count = 0, !.success_count = b.success_count + 1]
    IN  IF b1.state = HALF_OPEN /\ b1.success_count >= cfg.success_threshold
        THEN [b1 EXCEPT !.state = CLOSED, !.success_count = 0]
        ELSE b1

\* _on_failure that opens one failure after failure_threshold is reached
on_failure_late(b, cfg, t) ==
    LET b1 == [b EXCEPT !.failure_count = b.failure_count + 1,
                        !.total_failures = b.total_failures + 1,
                        !.last_failure_time = <<t>>,
                        !.success_count = 0]
    IN  IF b1.state = HALF_OPEN \/ b1.failure_count > cfg.failure_threshold
        THEN [b1 EXCEPT !.state = OPEN]
        ELSE b1

\* _on_failure that keeps success_count
on_failure_keeps_successes(b, cfg, t) ==
    LET b1 == [b EXCEPT !.failure_count = b.failure_count + 1,
                        !.total_failures = b.total_failures + 1,
                        !.last_failure_time = <<t>>]
    IN  IF b1.state = HALF_OPEN \/ b1.failure_count >= cfg.failure_threshold
        THEN [b1 EXCEPT !.state = OPEN]
        ELSE b1

\* _on_failure that reopens only at failure_threshold
on_failure_threshold_only(b, cfg, t) ==
    LET b1 == [b EXCEPT !.failure_count = b.failure_count + 1,
                        !.total_failures = b.total_failures + 1,
                        !.last_failure_time = <<t>>,
                        !.success_count = 0]
    IN  IF b1.failure_count >= cfg.failure_threshold
        THEN [b1 EXCEPT !.state = OPEN]
        ELSE b1

\* CircuitBreaker._on_failure
on_failure(b, cfg, t) ==
    LET b1 == [b EXCEPT !.failure_count = b.failure_count + 1,
                        !.total_failures = b.total_failures + 1,
                        !.last_failure_time = <<t>>,
                        !.success_count = 0]
    IN  IF b1.state = HALF_OPEN \/ b1.failure_count >= cfg.failure_threshold
        THEN [b1 EXCEPT !.state = OPEN]
        ELSE b1

\* admission that closes the breaker once recovery_timeout has elapsed
admit_closes(b, cfg, t) ==
    LET b1 == [b EXCEPT !.total_calls = b.total_calls + 1]
    IN  IF b1.state = OPEN
        THEN IF should_attempt_reset(b1, cfg, t)
             THEN [breaker |-> [b1 EXCEPT !.state = CLOSED], rejected |-> FALSE]
             ELSE [breaker |-> b1, rejected |-> TRUE]
        ELSE [breaker |-> b1, rejected |-> FALSE]

\* admission that lets the trial through without leaving OPEN
admit_stays_open(b, cfg, t) ==
    LET b1 == [b EXCEPT !.total_calls = b.total_calls + 1]
    IN  IF b1.state = OPEN /\ ~should_attempt_reset(b1, cfg, t)
        THEN [breaker |-> b1, rejected |-> TRUE]
        ELSE [breaker |-> b1, rejected |-> FALSE]

\* admission whose rejections count as failures for the recovery clock
admit_postpones(b, cfg, t) ==
    LET b1 == [b EXCEPT !.total_calls = b.total_calls + 1]
    IN  IF b1.state = OPEN
        THEN IF should_attempt_reset(b1, cfg, t)
             THEN [breaker |-> [b1 EXCEPT !.state = HALF_OPEN], rejected |-> FALSE]
             ELSE [breaker |-> [b1 EXCEPT !.last_failure_time = <<t>>],
                   rejected |-> TRUE]
        ELSE [breaker |-> b1, rejected |-> FALSE]

\* CircuitBreaker.call, lines 73-82: the admission made under the lock.
\* Yields the breaker after admission and whether the call was rejected.
admit(b, cfg, t) ==
    LET b1 == [b EXCEPT !.total_calls = b.total_calls + 1]
    IN  IF b1.state = OPEN
        THEN IF should_attempt_reset(b1, cfg, t)
             THEN [breaker |-> [b1 EXCEPT !.state = HALF_OPEN], rejected |-> FALSE]
             ELSE [breaker |-> b1, rejected |-> TRUE]
        ELSE [breaker |-> b1, rejected |-> FALSE]

\* a reset that forgets the last failure as well
reset_forgetting(b) ==
    [b EXCEPT !.state = CLOSED, !.failure_count = 0, !.success_count = 0,
              !.last_failure_time = NoTime]

\* CircuitBreaker.reset
reset(b) ==
    [b EXCEPT !.state = CLOSED, !.failure_count = 0, !.success_count = 0]


\* the configurations a single CircuitBreaker is constructed with in SpecCB
RecoveryTimeouts == {30, 60}
Configs ==
    {CircuitBreakerConfig(ft, rt, st) :
        ft \in 1..MaxThreshold, rt \in RecoveryTimeouts, st \in 1..MaxThreshold}

\* what the caller of call() observes: the breaker's state when it called, whether
\* func was invoked, and how the call ended
CallResult(n, outcome, invoked, from) ==
    [op |-> "call", name |-> n, outcome |-> outcome, invoked |-> invoked, from |-> from]

\* the successful calls made in HALF_OPEN, counted by the caller: one more after a
\* success that leaves the breaker HALF_OPEN, none once it has left HALF_OPEN
trials_after(n) ==
    IF breakers'[n].state = HALF_OPEN THEN trials[n] + 1 ELSE 0

\* a call() that does not wait for the lock
lock_is_free_always(n) == TRUE

\* `with self._lock` (lines 73 and 131) can be entered: nobody is inside it
lock_is_free(n) == lock[n] = "free"

\* time.time() advances
Tick ==
    /\ now + TickStep <= MaxTime
    /\ now' = now + TickStep
    /\ UNCHANGED <<config, breakers, lock, result, streak, trials, cwf, scvars, cachevars, client, agent, purevars>>

\* CircuitBreaker.call up to the invocation of func (lines 73-85)
CallEnter(n) ==
    /\ lock_is_free(n)
    /\ breakers[n].total_calls < MaxCalls
    /\ LET a == admit(breakers[n], config[n], now)
       IN  /\ breakers' = [breakers EXCEPT ![n] = a.breaker]
           /\ IF a.rejected
              THEN /\ lock' = lock
                   /\ result' = CallResult(n, "rejected", FALSE, breakers[n].state)
              ELSE /\ lock' = [lock EXCEPT ![n] = "call"]
                   /\ result' = CallResult(n, "executing", TRUE, breakers[n].state)
    /\ UNCHANGED <<now, config, streak, trials, cwf, scvars, cachevars, client, agent, purevars>>

\* CircuitBreaker.call, lines 85-87: func returned
CallReturn(n) ==
    /\ lock[n] = "call"
    /\ breakers' = [breakers EXCEPT ![n] = on_success(breakers[n], config[n])]
    /\ lock' = [lock EXCEPT ![n] = "free"]
    /\ result' = [result EXCEPT !.outcome = "returned"]
    /\ streak' = [streak EXCEPT ![n] = 0]
    /\ trials' = [trials EXCEPT ![n] = trials_after(n)]
    /\ UNCHANGED <<now, config, cwf, scvars, cachevars, client, agent, purevars>>

\* CircuitBreaker.call, lines 89-91: func raised
CallRaise(n) ==
    /\ lock[n] = "call"
    /\ breakers' = [breakers EXCEPT ![n] = on_failure(breakers[n], config[n], now)]
    /\ lock' = [lock EXCEPT ![n] = "free"]
    /\ result' = [result EXCEPT !.outcome = "raised"]
    /\ streak' = [streak EXCEPT ![n] = streak[n] + 1]
    /\ trials' = [trials EXCEPT ![n] = 0]
    /\ UNCHANGED <<now, config, cwf, scvars, cachevars, client, agent, purevars>>

\* CircuitBreaker.reset (lines 129-135)
Reset(n) ==
    /\ lock_is_free(n)
    /\ breakers' = [breakers EXCEPT ![n] = reset(breakers[n])]
    /\ result' = [op |-> "reset", name |-> n, outcome |-> "none", invoked |-> FALSE,
                  from |-> breakers[n].state]
    /\ streak' = [streak EXCEPT ![n] = 0]
    /\ trials' = [trials EXCEPT ![n] = 0]
    /\ UNCHANGED <<now, config, lock, cwf, scvars, cachevars, client, agent, purevars>>

\* call_with_fallback without the inner try: the fallback's own error reaches the caller
cwf_outcome_propagates(primary, fallback) ==
    IF primary = "returned" THEN "primary_result"
    ELSE IF fallback = "returned" THEN "fallback_result"
    ELSE fallback

\* what call_with_fallback hands to its caller (lines 180-190)
cwf_outcome(primary, fallback) ==
    IF primary = "returned" THEN "primary_result"
    ELSE IF fallback = "returned" THEN "fallback_result"
    ELSE "all_unavailable"

\* the fallback routed through the primary's breaker
fallback_breaker_primary == PRIMARY

\* which breaker a failed primary attempt falls back to (line 187)
fallback_breaker == FALLBACK

\* call_with_fallback, line 181: breakers['pollinations'].call(primary_func)
CwfPrimaryEnter ==
    /\ cwf.pc = "idle"
    /\ lock_is_free(PRIMARY)
    /\ breakers[PRIMARY].total_calls < MaxCalls
    /\ breakers[FALLBACK].total_calls < MaxCalls
    /\ LET a == admit(breakers[PRIMARY], config[PRIMARY], now)
       IN  /\ breakers' = [breakers EXCEPT ![PRIMARY] = a.breaker]
           /\ IF a.rejected
              THEN /\ lock' = lock
                   /\ cwf' = [pc |-> "except", primary |-> "rejected",
                              fallback |-> "none", seen |-> "none"]
              ELSE /\ lock' = [lock EXCEPT ![PRIMARY] = "cwf"]
                   /\ cwf' = [pc |-> "primary", primary |-> "executing",
                              fallback |-> "none", seen |-> "none"]
    /\ UNCHANGED <<now, config, result, streak, trials, scvars, cachevars, client, agent, purevars>>

\* primary_func returned: call_with_fallback returns its result (line 181)
CwfPrimaryReturn ==
    /\ cwf.pc = "primary"
    /\ breakers' = [breakers EXCEPT ![PRIMARY] = on_success(breakers[PRIMARY], config[PRIMARY])]
    /\ lock' = [lock EXCEPT ![PRIMARY] = "free"]
    /\ streak' = [streak EXCEPT ![PRIMARY] = 0]
    /\ trials' = [trials EXCEPT ![PRIMARY] = trials_after(PRIMARY)]
    /\ cwf' = [cwf EXCEPT !.pc = "idle", !.primary = "returned",
                          !.seen = cwf_outcome("returned", cwf.fallback)]
    /\ UNCHANGED <<now, config, result, scvars, cachevars, client, agent, purevars>>

\* primary_func raised: the except clause of line 182 is entered
CwfPrimaryRaise ==
    /\ cwf.pc = "primary"
    /\ breakers' = [breakers EXCEPT ![PRIMARY] = on_failure(breakers[PRIMARY], config[PRIMARY], now)]
    /\ lock' = [lock EXCEPT ![PRIMARY] = "free"]
    /\ streak' = [streak EXCEPT ![PRIMARY] = streak[PRIMARY] + 1]
    /\ trials' = [trials EXCEPT ![PRIMARY] = 0]
    /\ cwf' = [cwf EXCEPT !.pc = "except", !.primary = "raised"]
    /\ UNCHANGED <<now, config, result, scvars, cachevars, client, agent, purevars>>

\* call_with_fallback, line 187: breakers['huggingface'].call(fallback_func)
CwfFallbackEnter ==
    /\ cwf.pc = "except"
    /\ lock_is_free(fallback_breaker)
    /\ LET f == fallback_breaker
           a == admit(breakers[f], config[f], now)
       IN  /\ breakers' = [breakers EXCEPT ![f] = a.breaker]
           /\ IF a.rejected
              THEN /\ lock' = lock
                   /\ cwf' = [cwf EXCEPT !.pc = "idle", !.fallback = "rejected",
                                         !.seen = cwf_outcome(cwf.primary, "rejected")]
              ELSE /\ lock' = [lock EXCEPT ![f] = "cwf"]
                   /\ cwf' = [cwf EXCEPT !.pc = "fallback", !.fallback = "executing"]
    /\ UNCHANGED <<now, config, result, streak, trials, scvars, cachevars, client, agent, purevars>>

\* fallback_func returned: call_with_fallback returns its result (line 187)
CwfFallbackReturn ==
    /\ cwf.pc = "fallback"
    /\ LET f == fallback_breaker
       IN  /\ breakers' = [breakers EXCEPT ![f] = on_success(breakers[f], config[f])]
           /\ lock' = [lock EXCEPT ![f] = "free"]
           /\ streak' = [streak EXCEPT ![f] = 0]
           /\ trials' = [trials EXCEPT ![f] = trials_after(f)]
    /\ cwf' = [cwf EXCEPT !.pc = "idle", !.fallback = "returned",
                          !.seen = cwf_outcome(cwf.primary, "returned")]
    /\ UNCHANGED <<now, config, result, scvars, cachevars, client, agent, purevars>>

\* fallback_func raised: lines 188-190
CwfFallbackRaise ==
    /\ cwf.pc = "fallback"
    /\ LET f == fallback_breaker
       IN  /\ breakers' = [breakers EXCEPT ![f] = on_failure(breakers[f], config[f], now)]
           /\ lock' = [lock EXCEPT ![f] = "free"]
           /\ streak' = [streak EXCEPT ![f] = streak[f] + 1]
           /\ trials' = [trials EXCEPT ![f] = 0]
    /\ cwf' = [cwf EXCEPT !.pc = "idle", !.fallback = "raised",
                          !.seen = cwf_outcome(cwf.primary, "raised")]
    /\ UNCHANGED <<now, config, result, scvars, cachevars, client, agent, purevars>>

\* no scrape_sources_parallel call is part of the breaker specifications
NoScraper ==
    /\ mgr = <<>>
    /\ task = <<>>
    /\ task_result = <<>>
    /\ fetch = <<>>
    /\ value = 0
    /\ done_queue = <<>>
    /\ late = {}
    /\ results = <<>>
    /\ quality_sources_count = 0
    /\ pc = "none"
    /\ early_terminated = FALSE

\* no OptimizedSearchClient is part of the specification
NoClient == client = <<>>

\* no EnhancedAgent is part of the specification
NoAgent == agent = <<>>

\* no ContentQualityAssessor is called on its own
NoAssessor == assessor = <<>>

\* no SourceRanker is called on its own
NoRanker == ranker = <<>>

NoCache ==
    /\ cm = <<>>
    /\ cache = <<>>
    /\ statistics = <<>>
    /\ cache_lock = 0
    /\ th = <<>>
    /\ last_done = <<>>
    /\ ops = 0

\* CircuitBreaker.__init__ for every breaker named in cfg
InitBreakers(cfg) ==
    /\ now = 0
    /\ config = cfg
    /\ breakers = [n \in DOMAIN cfg |-> CircuitBreakerStats]
    /\ lock = [n \in DOMAIN cfg |-> "free"]
    /\ result = NoResult
    /\ streak = [n \in DOMAIN cfg |-> 0]
    /\ trials = [n \in DOMAIN cfg |-> 0]
    /\ cwf = CwfIdle
    /\ NoScraper
    /\ NoCache
    /\ NoClient
    /\ NoAgent
    /\ NoAssessor
    /\ NoRanker

\* one CircuitBreaker("service", config) and its callers
InitCB == \E c \in Configs : InitBreakers(SERVICE :> c)
CallEnterCB == CallEnter(SERVICE)
CallReturnCB == CallReturn(SERVICE)
CallRaiseCB == CallRaise(SERVICE)
ResetCB == Reset(SERVICE)
NextCB == Tick \/ CallEnterCB \/ CallReturnCB \/ CallRaiseCB \/ ResetCB
SpecCB == InitCB /\ [][NextCB]_vars

\* SpecCB with time passing and callers that keep calling the breaker
SpecCBFair == SpecCB /\ WF_vars(Tick) /\ WF_vars(CallEnterCB)

\* AIServiceCircuitBreaker(), the callers of call_with_fallback, and callers that
\* use the primary breaker directly (as tests/test_circuit_breaker.py:256-282 does)
InitAI == InitBreakers(AIServiceConfig)
CallEnterAI == CallEnter(PRIMARY)
CallReturnAI == CallReturn(PRIMARY)
CallRaiseAI == CallRaise(PRIMARY)
NextAI ==
    \/ Tick
    \/ CallEnterAI \/ CallReturnAI \/ CallRaiseAI
    \/ CwfPrimaryEnter \/ CwfPrimaryReturn \/ CwfPrimaryRaise
    \/ CwfFallbackEnter \/ CwfFallbackReturn \/ CwfFallbackRaise
SpecAI == InitAI /\ [][NextAI]_vars

\* AIServiceCircuitBreaker() with a caller of call_with_fallback and a caller
\* that calls and resets either breaker directly, one operation after the other;
\* MaxCalls bounds the calls on both breakers together
CallsLeft(k) ==
    breakers[PRIMARY].total_calls + breakers[FALLBACK].total_calls + k <= MaxCalls
DirectIdle == result.outcome # "executing"
CallEnterBoth ==
    \E n \in {PRIMARY, FALLBACK} : DirectIdle /\ CallsLeft(1) /\ CallEnter(n)
CallReturnBoth == \E n \in {PRIMARY, FALLBACK} : CallReturn(n)
CallRaiseBoth == \E n \in {PRIMARY, FALLBACK} : CallRaise(n)
ResetBoth == \E n \in {PRIMARY, FALLBACK} : DirectIdle /\ Reset(n)
CwfPrimaryEnterBoth == CallsLeft(2) /\ CwfPrimaryEnter
NextAIBoth ==
    \/ Tick
    \/ CallEnterBoth \/ CallReturnBoth \/ CallRaiseBoth \/ ResetBoth
    \/ CwfPrimaryEnterBoth \/ CwfPrimaryReturn \/ CwfPrimaryRaise
    \/ CwfFallbackEnter \/ CwfFallbackReturn \/ CwfFallbackRaise
SpecAIBoth == InitAI /\ [][NextAIBoth]_vars

(***************************************************************************)
(* app/concurrent_scraper.py                                               *)
(***************************************************************************)

\* what one run of scrape_url can end with, as the task that awaits it finds out
\* when it resumes
FetchOutcomes == {"quality_content", "poor_content", "returned_None", "raised"}

Sources == 1..mgr.n

\* ScrapingResult(url, success, content, error)
ScrapingResult(url, success, content, error) ==
    [url |-> url, success |-> success, content |-> content, error |-> error]

\* a __post_init__ that validates successful results only
post_init_content_only(r) ==
    IF r.success /\ r.content = None THEN "ValueError" ELSE "accepted"

\* ScrapingResult.__post_init__: whether the construction of r raises ValueError
post_init(r) ==
    IF r.success /\ r.content = None THEN "ValueError"
    ELSE IF ~r.success /\ r.error = None THEN "ValueError"
    ELSE "accepted"

\* the values the fields content and error of a ScrapingResult are given
ContentFields == {None, "quality_content", "poor_content"}
ErrorFields == {None, "Scraper returned None", "Timeout", "exception"}

\* _scrape_single_source, lines 151-167 and 179-187: the result built from
\* what scrape_url returned or raised
scrape_result(url, out) ==
    IF out = "returned_None"
    THEN ScrapingResult(url, FALSE, None, "Scraper returned None")
    ELSE IF out = "raised"
    THEN ScrapingResult(url, FALSE, None, "exception")
    ELSE ScrapingResult(url, TRUE, out, None)

\* _scrape_single_source, lines 169-177
timeout_result(url) == ScrapingResult(url, FALSE, None, "Timeout")

\* a quality check that every successful result passes
should_terminate_early_any_success(r) == r.success /\ r.content # None

\* _should_terminate_early: the result is successful and its content passes
\* the quality check (assessor relevance >= quality_threshold, or the basic check)
should_terminate_early(r) ==
    r.success /\ r.content # None /\ r.content = "quality_content"

\* cancellation that misses the tasks still waiting for the semaphore
cancel_task_fetching_only(t, f) ==
    IF t = "fetching"
    THEN IF f = "finished" THEN "cancel_race" ELSE "cancelling"
    ELSE t

\* scrape_sources_parallel, lines 99-101: task.cancel() on a task that is not done.
\* A task whose wait_for future is already done when cancel() arrives has not
\* resumed yet: whether it then returns its result or ends cancelled depends on
\* the asyncio version.
cancel_task(t, f) ==
    IF t = "waiting" THEN "cancelling"
    ELSE IF t = "fetching"
    THEN IF f = "finished" THEN "cancel_race" ELSE "cancelling"
    ELSE t

\* number of scrape_url invocations started and not yet returned
InFlight == Cardinality({i \in Sources : fetch[i] = "running"})

\* run_in_executor(None, ...), line 147: every thread of the loop's default
\* executor is running a scrape_url
WorkersBusy == InFlight >= MaxWorkers

\* what a task that has not returned holds in place of a ScrapingResult
NotReturned == [returned |-> FALSE]

\* tasks inside `async with semaphore`
Holding == {i \in Sources : task[i] \in {"fetching", "cancel_race"}
                             \/ (task[i] = "cancelling" /\ fetch[i] # "none")}

\* scrape_sources_parallel up to line 80: the semaphore and one task per source
InitScraper ==
    /\ mgr \in [max_concurrent : 1..MaxConcurrent,
                 min_quality_sources : 1..MaxMinQuality,
                 early_termination : BOOLEAN,
                 n : 0..MaxSources]
    \* min_quality_sources is read only when early_termination is set (lines 88-96)
    /\ mgr.early_termination \/ mgr.min_quality_sources = 1
    /\ task = [i \in 1..mgr.n |-> "waiting"]
    /\ task_result = [i \in 1..mgr.n |-> NotReturned]
    /\ fetch = [i \in 1..mgr.n |-> "none"]
    /\ value = mgr.max_concurrent
    /\ done_queue = <<>>
    /\ late = {}
    /\ results = <<>>
    /\ quality_sources_count = 0
    /\ pc = IF mgr.n = 0 THEN "gather" ELSE "loop"
    /\ early_terminated = FALSE
    /\ now = 0
    /\ config = <<>>
    /\ breakers = <<>>
    /\ lock = <<>>
    /\ result = NoResult
    /\ streak = <<>>
    /\ trials = <<>>
    /\ cwf = CwfIdle
    /\ NoCache
    /\ NoClient
    /\ NoAgent
    /\ NoAssessor
    /\ NoRanker

\* The event loop runs one callback at a time. The coordinator takes every task
\* that as_completed has queued without yielding (Queue.get does not suspend while
\* the queue is not empty), so no task runs between two such iterations.
LoopTurn == pc # "drain"

\* a finished task is queued and the coordinator, waiting in the loop, has been
\* woken for it but has not run yet
CoordinatorWoken == pc = "loop" /\ done_queue # <<>>

\* A task admitted after the coordinator was woken resumes from its wait_for only
\* in a later iteration of the event loop than the one the coordinator runs in.
MayResume(i) == i \notin late

\* _scrape_single_source, lines 140-149: the semaphore is acquired (waiters are
\* served in the order the tasks were created) and scrape_url is handed to the executor
TaskAcquire(i) ==
    /\ LoopTurn
    /\ task[i] = "waiting"
    /\ value > 0
    /\ \A j \in 1..(i - 1) : task[j] # "waiting"
    /\ value' = value - 1
    /\ task' = [task EXCEPT ![i] = "fetching"]
    /\ fetch' = [fetch EXCEPT ![i] = "queued"]
    /\ late' = IF CoordinatorWoken THEN late \cup {i} ELSE late
    /\ UNCHANGED <<mgr, task_result, done_queue, results, quality_sources_count,
                   pc, early_terminated, cbvars, cachevars, client, agent, purevars>>

\* an idle executor thread takes the oldest scrape_url(source.url) of the
\* executor's queue and starts it
FetchStart(i) ==
    /\ fetch[i] = "queued"
    /\ ~WorkersBusy
    /\ \A j \in 1..(i - 1) : fetch[j] # "queued"
    /\ fetch' = [fetch EXCEPT ![i] = "running"]
    /\ UNCHANGED <<mgr, task, task_result, value, done_queue, late, results,
                   quality_sources_count, pc, early_terminated, cbvars, cachevars, client, agent, purevars>>

\* scrape_url returns or raises in its thread
FetchFinish(i) ==
    /\ fetch[i] = "running"
    /\ fetch' = [fetch EXCEPT ![i] = "finished"]
    /\ UNCHANGED <<mgr, task, task_result, value, done_queue, late, results,
                   quality_sources_count, pc, early_terminated, cbvars, cachevars, client, agent, purevars>>

\* an as_completed that yields the finished tasks by rank
on_completion_by_rank(q, i) ==
    LET before == SelectSeq(q, LAMBDA j : j < i)
        after == SelectSeq(q, LAMBDA j : j > i)
    IN  before \o <<i>> \o after

\* an as_completed that loses the finished task
on_completion_lost(q, i) == q

\* asyncio.as_completed (line 83): the done callback of a finished task puts it
\* at the end of the queue the loop takes its tasks from
on_completion(q, i) == Append(q, i)

\* _scrape_single_source, lines 151-167 and 179-187: the task resumes with the
\* outcome of scrape_url, returns its ScrapingResult and releases the semaphore
TaskComplete(i, out) ==
    /\ LoopTurn
    /\ MayResume(i)
    /\ task[i] = "fetching"
    /\ fetch[i] = "finished"
    /\ task' = [task EXCEPT ![i] = "done"]
    /\ task_result' = [task_result EXCEPT ![i] = scrape_result(i, out)]
    /\ value' = value + 1
    /\ done_queue' = on_completion(done_queue, i)
    /\ UNCHANGED <<mgr, late, fetch, results, quality_sources_count, pc,
                   early_terminated, cbvars, cachevars, client, agent, purevars>>

\* what the timeout of wait_for leaves of the scrape_url run (line 146-149):
\* a run not yet started is cancelled, a started one goes on in its thread
abandon(f) == IF f = "queued" THEN "cancelled" ELSE f

\* _scrape_single_source, lines 169-177: wait_for timed out, while scrape_url
\* was running or was kept in the executor's queue by busy threads. Every task
\* waits timeout_per_source, so the waits end in the order they began.
TaskTimeout(i) ==
    /\ LoopTurn
    /\ MayResume(i)
    /\ task[i] = "fetching"
    /\ fetch[i] = "running" \/ (fetch[i] = "queued" /\ WorkersBusy)
    /\ \A j \in 1..(i - 1) : task[j] # "fetching"
    /\ task' = [task EXCEPT ![i] = "done"]
    /\ task_result' = [task_result EXCEPT ![i] = timeout_result(i)]
    /\ fetch' = [fetch EXCEPT ![i] = abandon(fetch[i])]
    /\ value' = value + 1
    /\ done_queue' = on_completion(done_queue, i)
    /\ UNCHANGED <<mgr, late, results, quality_sources_count, pc, early_terminated, cbvars, cachevars, client, agent, purevars>>

\* CancelledError is raised in a cancelled task at its await (semaphore.acquire
\* or wait_for); `async with` releases the semaphore if the task held it
TaskCancelled(i) ==
    /\ LoopTurn
    /\ task[i] = "cancelling"
    /\ task' = [task EXCEPT ![i] = "cancelled"]
    /\ value' = IF fetch[i] # "none" THEN value + 1 ELSE value
    /\ fetch' = [fetch EXCEPT ![i] = abandon(fetch[i])]
    /\ UNCHANGED <<mgr, task_result, done_queue, late, results, quality_sources_count,
                   pc, early_terminated, cbvars, cachevars, client, agent, purevars>>

\* a task cancelled after its scrape_url finished resumes: wait_for returns the
\* finished result and the task completes
TaskRaceComplete(i, out) ==
    /\ LoopTurn
    /\ task[i] = "cancel_race"
    /\ task' = [task EXCEPT ![i] = "done"]
    /\ task_result' = [task_result EXCEPT ![i] = scrape_result(i, out)]
    /\ value' = value + 1
    /\ done_queue' = on_completion(done_queue, i)
    /\ UNCHANGED <<mgr, late, fetch, results, quality_sources_count, pc,
                   early_terminated, cbvars, cachevars, client, agent, purevars>>

\* a task cancelled after its scrape_url finished resumes: wait_for raises
\* CancelledError and the task ends cancelled
TaskRaceCancelled(i) ==
    /\ LoopTurn
    /\ task[i] = "cancel_race"
    /\ task' = [task EXCEPT ![i] = "cancelled"]
    /\ value' = value + 1
    /\ UNCHANGED <<mgr, task_result, fetch, done_queue, late, results,
                   quality_sources_count, pc, early_terminated, cbvars, cachevars, client, agent, purevars>>

\* a quality check that ignores the early_termination argument
counts_as_quality_always(r) == should_terminate_early(r)

\* scrape_sources_parallel, lines 88-90: the condition under which a result is
\* counted as a quality source
counts_as_quality(r) == mgr.early_termination /\ should_terminate_early(r)

\* scrape_sources_parallel, lines 82-102: one iteration of the as_completed loop
CoordNext ==
    /\ pc \in {"loop", "drain"}
    /\ done_queue # <<>>
    /\ LET i == Head(done_queue)
           r == task_result[i]
           q == counts_as_quality(r)
           cnt == IF q THEN quality_sources_count + 1 ELSE quality_sources_count
           fire == q /\ cnt >= mgr.min_quality_sources
       IN  /\ results' = Append(results, r)
           /\ done_queue' = Tail(done_queue)
           /\ quality_sources_count' = cnt
           /\ early_terminated' = fire
           /\ task' = IF fire
                      THEN [j \in Sources |-> cancel_task(task[j], fetch[j])]
                      ELSE task
           /\ pc' = IF fire \/ Len(results') = mgr.n THEN "gather"
                    ELSE IF done_queue' # <<>> THEN "drain"
                    ELSE "loop"
    /\ late' = {}
    /\ UNCHANGED <<mgr, task_result, fetch, value, cbvars, cachevars, client, agent, purevars>>

\* scrape_sources_parallel, lines 118-121: gather returns once every task has
\* finished or been cancelled, and results is returned
CoordGather ==
    /\ pc = "gather"
    /\ \A i \in Sources : task[i] \in {"done", "cancelled"}
    /\ pc' = "returned"
    /\ UNCHANGED <<mgr, task, task_result, fetch, value, done_queue, late, results,
                   quality_sources_count, early_terminated, cbvars, cachevars, client, agent, purevars>>

TaskAcquireAny == \E i \in Sources : TaskAcquire(i)
FetchStartAny == \E i \in Sources : FetchStart(i)
FetchFinishAny == \E i \in Sources : FetchFinish(i)
TaskCompleteAny == \E i \in Sources : \E out \in FetchOutcomes : TaskComplete(i, out)
TaskTimeoutAny == \E i \in Sources : TaskTimeout(i)
TaskCancelledAny == \E i \in Sources : TaskCancelled(i)
TaskRaceCompleteAny ==
    \E i \in Sources : \E out \in FetchOutcomes : TaskRaceComplete(i, out)
TaskRaceCancelledAny == \E i \in Sources : TaskRaceCancelled(i)

NextScraper ==
    \/ TaskAcquireAny \/ FetchStartAny \/ FetchFinishAny
    \/ TaskCompleteAny \/ TaskTimeoutAny \/ TaskCancelledAny
    \/ TaskRaceCompleteAny \/ TaskRaceCancelledAny
    \/ CoordNext \/ CoordGather
SpecScraper == InitScraper /\ [][NextScraper]_vars

\* The event loop runs every callback that is ready, the timer of each wait_for
\* fires, and an idle executor thread takes the next job; only scrape_url may
\* run for ever in its thread.
ScraperProgress ==
    \/ TaskAcquireAny \/ FetchStartAny
    \/ TaskCompleteAny \/ TaskTimeoutAny \/ TaskCancelledAny
    \/ TaskRaceCompleteAny \/ TaskRaceCancelledAny
    \/ CoordNext \/ CoordGather
\* every step of ScraperProgress changes one of these
scprogress == <<task, fetch, done_queue, pc>>
SpecScraperFair == SpecScraper /\ WF_scprogress(ScraperProgress)

(***************************************************************************)
(* app/cache_manager.py                                                    *)
(***************************************************************************)
\* A str is a sequence of one-character strings. The urls of the contents that
\* are cached (two spellings of one url, and the url of another port of its
\* host, as https://host and https://host:8), the urls that are looked up and
\* invalidated, and the queries.
RawUrls == {<<"a">>, <<"A", "/">>, <<"a", ":", "8">>}
LookupUrls == {<<"A", "/">>, <<"a", ":", "8">>}
RawQueries == {<<"q">>, <<"r">>}

\* str.lower()
lower(s) ==
    [k \in 1..Len(s) |->
        IF s[k] = "A" THEN "a" ELSE IF s[k] = "Q" THEN "q" ELSE s[k]]

\* str.rstrip(c)
RECURSIVE rstrip(_, _)
rstrip(s, c) ==
    IF s # <<>> /\ s[Len(s)] = c THEN rstrip(SubSeq(s, 1, Len(s) - 1), c) ELSE s

\* str.lstrip(c)
RECURSIVE lstrip(_, _)
lstrip(s, c) == IF s # <<>> /\ Head(s) = c THEN lstrip(Tail(s), c) ELSE s

\* str.strip()
strip(s) == rstrip(lstrip(s, " "), " ")

\* str.startswith(p)
startswith(s, p) == Len(p) <= Len(s) /\ SubSeq(s, 1, Len(p)) = p

\* hashlib.md5(s.encode()).hexdigest(), taken to be free of collisions
md5(s) == <<"md5(">> \o s \o <<")">>

\* url.rstrip('/').lower(), lines 114 and 237
normalized_url(url) == lower(rstrip(url, "/"))

\* CacheManager._generate_query_hash
generate_query_hash(query) == md5(strip(lower(query)))

\* a cache key made of the url alone
generate_cache_key_url_only(url, query) == normalized_url(url) \o <<":">>

\* CacheManager._generate_cache_key
generate_cache_key(url, query) ==
    normalized_url(url) \o <<":">> \o md5(strip(lower(query)))

\* EnhancedSource, with str(content.url) for its url
EnhancedSource(url) == [url |-> url]
Contents == {EnhancedSource(u) : u \in RawUrls}

\* the ttl argument: <<>> is None, <<s>> is s seconds
TtlArgs == {<<>>, <<10>>}
DefaultTtls == {3600}

\* CachedContent(url, content, cached_at, query_hash, expiry_time) as
\* cache_content builds it at time t (lines 208-214)
CachedContent(content, query, ttl, t) ==
    [url |-> content.url, content |-> content, cached_at |-> t,
     query_hash |-> generate_query_hash(query), expiry_time |-> t + ttl,
     access_count |-> 0, last_accessed |-> t]

\* CachedContent.is_expired at time t
is_expired(e, t) == t > e.expiry_time

\* CachedContent.access at time t
access(e, t) == [e EXCEPT !.access_count = @ + 1, !.last_accessed = t]

\* CacheStatistics()
CacheStatistics == [hits |-> 0, misses |-> 0, evictions |-> 0, total_requests |-> 0]

\* CacheStatistics.record_hit
record_hit(s) == [s EXCEPT !.hits = @ + 1, !.total_requests = @ + 1]

\* CacheStatistics.record_miss
record_miss(s) == [s EXCEPT !.misses = @ + 1, !.total_requests = @ + 1]

\* CacheStatistics.record_eviction
record_eviction(s) == [s EXCEPT !.evictions = @ + 1]

\* record_eviction called once for each of n deleted entries
record_evictions(s, n) == [s EXCEPT !.evictions = @ + n]

\* a percentage, kept as the exact fraction num / den with den > 0
Percent(num, den) == [num |-> num, den |-> den]

\* CacheStatistics.hit_rate (lines 46-51): 0.0 without requests, else
\* hits / total_requests * 100
hit_rate(s) ==
    IF s.total_requests = 0
    THEN Percent(0, 1)
    ELSE Percent(s.hits * 100, s.total_requests)

\* CacheStatistics.miss_rate (lines 53-56): 100.0 - hit_rate
miss_rate(s) ==
    LET h == hit_rate(s) IN Percent(100 * h.den - h.num, h.den)

\* The dict _cache is the sequence of its items in iteration order.
CacheKeys(c) == {c[k].key : k \in 1..Len(c)}
index_of(c, key) == CHOOSE k \in 1..Len(c) : c[k].key = key
remove_at(c, k) == SubSeq(c, 1, k - 1) \o SubSeq(c, k + 1, Len(c))

\* CacheManager._cleanup_expired at time t
cleanup_expired(c, s, t) ==
    LET kept == SelectSeq(c, LAMBDA p : ~is_expired(p.entry, t))
    IN  [cache |-> kept, statistics |-> record_evictions(s, Len(c) - Len(kept))]

\* CacheManager._evict_lru: min() takes the first of the items with the least
\* last_accessed
evict_lru(c, s) ==
    IF c = <<>>
    THEN [cache |-> c, statistics |-> s]
    ELSE LET k == CHOOSE k \in 1..Len(c) :
                    /\ \A j \in 1..Len(c) :
                         c[k].entry.last_accessed <= c[j].entry.last_accessed
                    /\ \A j \in 1..(k - 1) :
                         c[j].entry.last_accessed > c[k].entry.last_accessed
         IN  [cache |-> remove_at(c, k), statistics |-> record_eviction(s)]

\* get_cached_content without its own expiry check (lines 175-180)
get_cached_content_unchecked(c, s, key, t) ==
    IF key \notin CacheKeys(c)
    THEN [cache |-> c, statistics |-> record_miss(s), ret |-> <<>>]
    ELSE LET k == index_of(c, key) IN
         [cache |-> [c EXCEPT ![k].entry = access(@, t)],
          statistics |-> record_hit(s), ret |-> <<c[k].entry.content>>]

\* get_cached_content, lines 172-191, at time t: what it leaves and returns
\* (<<>> is None)
get_cached_content(c, s, key, t) ==
    IF key \notin CacheKeys(c)
    THEN [cache |-> c, statistics |-> record_miss(s), ret |-> <<>>]
    ELSE LET k == index_of(c, key) IN
         IF is_expired(c[k].entry, t)
         THEN [cache |-> remove_at(c, k),
               statistics |-> record_eviction(record_miss(s)), ret |-> <<>>]
         ELSE [cache |-> [c EXCEPT ![k].entry = access(@, t)],
               statistics |-> record_hit(s), ret |-> <<c[k].entry.content>>]

\* cache_content that evicts whenever the cache is full
cache_content_evicting(c, s, key, item, max_size) ==
    LET e == IF Len(c) >= max_size
             THEN evict_lru(c, s)
             ELSE [cache |-> c, statistics |-> s]
        p == [key |-> key, entry |-> item]
    IN  [cache |-> IF key \in CacheKeys(e.cache)
                   THEN [e.cache EXCEPT ![index_of(e.cache, key)] = p]
                   ELSE Append(e.cache, p),
         statistics |-> e.statistics, ret |-> <<>>]

\* cache_content, lines 220-224
cache_content(c, s, key, item, max_size) ==
    LET e == IF Len(c) >= max_size /\ key \notin CacheKeys(c)
             THEN evict_lru(c, s)
             ELSE [cache |-> c, statistics |-> s]
        p == [key |-> key, entry |-> item]
    IN  [cache |-> IF key \in CacheKeys(e.cache)
                   THEN [e.cache EXCEPT ![index_of(e.cache, key)] = p]
                   ELSE Append(e.cache, p),
         statistics |-> e.statistics, ret |-> <<>>]

\* invalidate_url, lines 240-250, for the prefix f"{normalized_url}:"
invalidate_url(c, s, prefix) ==
    LET kept == SelectSeq(c, LAMBDA p : ~startswith(p.key, prefix))
    IN  [cache |-> kept, statistics |-> record_evictions(s, Len(c) - Len(kept)),
         ret |-> <<Len(c) - Len(kept)>>]

\* invalidate_query, lines 265-275
invalidate_query(c, s, query_hash) ==
    LET kept == SelectSeq(c, LAMBDA p : p.entry.query_hash # query_hash)
    IN  [cache |-> kept, statistics |-> record_evictions(s, Len(c) - Len(kept)),
         ret |-> <<Len(c) - Len(kept)>>]

\* a clear_cache that starts the statistics afresh
clear_cache_resetting(c, s) ==
    [cache |-> <<>>, statistics |-> CacheStatistics, ret |-> <<Len(c)>>]

\* clear_cache, lines 285-288
clear_cache(c, s) == [cache |-> <<>>, statistics |-> s, ret |-> <<Len(c)>>]

\* a thread that is in no operation of the cache. In an operation, t0 is the time
\* read before `with self._lock`, initial_size is len(_cache) when the lock was
\* taken, and warm is <<>> or the frame of warm_cache_for_query the operation was
\* called from.
IdleThread ==
    [pc |-> "idle", op |-> "none", t0 |-> 0, initial_size |-> 0, warm |-> <<>>]

\* an operation that has returned: its name, its arguments and what it returned;
\* warm is <<n>> when warm_cache_for_query returned n with it, else <<>>
Done(op, args, ret) == [op |-> op, args |-> args, ret |-> ret, warm |-> <<>>]
NoDone == Done("none", <<>>, <<>>)

CacheThreads == 1..cm.threads

CacheOps == {"get_cached_content", "cache_content", "invalidate_url",
             "invalidate_query", "clear_cache", "cleanup_expired_entries"}

\* the operations whose locked part begins with _cleanup_expired
CleaningOps == {"get_cached_content", "cache_content", "cleanup_expired_entries"}

\* the ttl that cache_content uses, lines 202-203
effective_ttl(ttl) == IF ttl = <<>> THEN cm.default_ttl ELSE ttl[1]

\* a thread calls cache_content, which builds its CachedContent from the time it
\* reads (lines 208-214) and comes to its `with self._lock`
Call(t) ==
    /\ th[t].pc = "idle"
    /\ ops < MaxCacheOps
    /\ ops' = ops + 1
    /\ th' = [th EXCEPT ![t] = [@ EXCEPT !.pc = "waiting", !.op = "cache_content",
                                         !.t0 = now]]
    /\ last_done' = NoDone
    /\ UNCHANGED <<now, cm, cache, statistics, cache_lock, cbvars, scvars, client, agent, purevars>>

\* thread thr enters `with self._lock` of its operation op; get_cached_content,
\* cache_content and cleanup_expired_entries then call _cleanup_expired
lock_enter(t, thr, op) ==
    /\ cache_lock = 0
    /\ cache_lock' = t
    /\ LET e == IF op \in CleaningOps
                THEN cleanup_expired(cache, statistics, now)
                ELSE [cache |-> cache, statistics |-> statistics]
       IN  /\ cache' = e.cache
           /\ statistics' = e.statistics
    /\ th' = [th EXCEPT ![t] = [thr EXCEPT !.pc = "locked", !.op = op,
                                           !.initial_size = Len(cache)]]
    /\ UNCHANGED <<now, cm, cbvars, scvars, client, agent, purevars>>

\* a thread that waits for the lock takes it
LockEnter(t) ==
    /\ th[t].pc = "waiting"
    /\ lock_enter(t, th[t], th[t].op)
    /\ UNCHANGED <<ops, last_done>>

\* a thread calls an operation that reads nothing before its `with self._lock`,
\* and takes the lock; the time it may wait for the lock is not shown
CallEntering(t, op) ==
    /\ th[t].pc = "idle"
    /\ ops < MaxCacheOps
    /\ ops' = ops + 1
    /\ last_done' = NoDone
    /\ lock_enter(t, th[t], op)

\* the sources lists and queries passed to warm_cache_for_query
WarmSources ==
    {<<>>} \cup UNION {[1..n -> {EnhancedSource(u) : u \in LookupUrls}] : n \in 1..MaxWarm}
WarmQueries == {<<" ", "Q">>}

\* warm_cache_for_query (lines 343-352) at the top of its loop with the sources
\* left and cached_count: the thread calls get_cached_content for the next
\* source, or leaves the loop
warm_loop(query, sources, ttl, cached_count) ==
    IF sources = <<>>
    THEN IdleThread
    ELSE [pc |-> "waiting", op |-> "get_cached_content", t0 |-> now,
          initial_size |-> 0,
          warm |-> <<[query |-> query, sources |-> sources, ttl |-> ttl,
                      cached_count |-> cached_count]>>]

\* cached_count of warm_cache_for_query once the operation the thread is in has
\* returned
warm_count(thr) ==
    IF thr.op = "cache_content"
    THEN thr.warm[1].cached_count + 1
    ELSE thr.warm[1].cached_count

\* where the thread goes once its operation has returned r: back to its caller,
\* or on in warm_cache_for_query (lines 345-352)
after_return(thr, r) ==
    IF thr.warm = <<>>
    THEN IdleThread
    ELSE LET w == thr.warm[1] IN
         IF thr.op = "get_cached_content" /\ r = <<>>
         THEN [thr EXCEPT !.pc = "waiting", !.op = "cache_content", !.t0 = now]
         ELSE warm_loop(w.query, Tail(w.sources), w.ttl, warm_count(thr))

\* the locked part of operation op of thread t, entered by LockEnter, runs to its
\* end with r.cache, r.statistics and r.ret, the lock is released and the
\* operation returns
LockExit(t, op, args, r) ==
    /\ th[t].pc = "locked"
    /\ th[t].op = op
    /\ cache_lock = t
    /\ cache_lock' = 0
    /\ cache' = r.cache
    /\ statistics' = r.statistics
    /\ th' = [th EXCEPT ![t] = after_return(@, r.ret)]
    /\ last_done' = IF th[t].warm # <<>> /\ th'[t].pc = "idle"
                    THEN [Done(op, args, r.ret) EXCEPT !.warm = <<warm_count(th[t])>>]
                    ELSE Done(op, args, r.ret)
    /\ UNCHANGED <<now, cm, ops, cbvars, scvars, client, agent, purevars>>

\* get_cached_content(url, query) called by a client
GetCachedContent(t, url, query) ==
    /\ th[t].warm = <<>>
    /\ LET key == generate_cache_key(url, query)
       IN  LockExit(t, "get_cached_content", <<url, query>>,
                    get_cached_content(cache, statistics, key, now))

\* cache_content(content, query, ttl) called by a client
CacheContent(t, content, query, ttl) ==
    /\ th[t].warm = <<>>
    /\ LET key == generate_cache_key(content.url, query)
           item == CachedContent(content, query, effective_ttl(ttl), th[t].t0)
       IN  LockExit(t, "cache_content", <<content, query, ttl>>,
                    cache_content(cache, statistics, key, item, cm.max_size))

\* invalidate_url(url)
InvalidateUrl(t, url) ==
    LET prefix == normalized_url(url) \o <<":">>
    IN  LockExit(t, "invalidate_url", <<url>>,
                 invalidate_url(cache, statistics, prefix))

\* invalidate_query(query)
InvalidateQuery(t, query) ==
    LET query_hash == generate_query_hash(query)
    IN  LockExit(t, "invalidate_query", <<query>>,
                 invalidate_query(cache, statistics, query_hash))

\* clear_cache()
ClearCache(t) == LockExit(t, "clear_cache", <<>>, clear_cache(cache, statistics))

\* cleanup_expired_entries(), lines 362-369
CleanupExpiredEntries(t) ==
    LockExit(t, "cleanup_expired_entries", <<>>,
             [cache |-> cache, statistics |-> statistics,
              ret |-> <<th[t].initial_size - Len(cache)>>])

\* warm_cache_for_query(query, sources, ttl) is called
WarmCacheForQuery(t, query, sources, ttl) ==
    /\ th[t].pc = "idle"
    /\ ops + 2 * Len(sources) <= MaxCacheOps
    /\ ops' = ops + 2 * Len(sources)
    /\ th' = [th EXCEPT ![t] = warm_loop(query, sources, ttl, 0)]
    /\ last_done' = IF sources = <<>>
                    THEN [NoDone EXCEPT !.warm = <<0>>]
                    ELSE NoDone
    /\ UNCHANGED <<now, cm, cache, statistics, cache_lock, cbvars, scvars, client, agent, purevars>>

\* warm_cache_for_query, line 347: its get_cached_content returns
WarmGet(t) ==
    /\ th[t].warm # <<>>
    /\ LET w == th[t].warm[1]
           key == generate_cache_key(Head(w.sources).url, w.query)
       IN  LockExit(t, "get_cached_content", <<Head(w.sources).url, w.query>>,
                    get_cached_content(cache, statistics, key, now))

\* warm_cache_for_query, line 348: its cache_content returns
WarmCache(t) ==
    /\ th[t].warm # <<>>
    /\ LET w == th[t].warm[1]
           key == generate_cache_key(Head(w.sources).url, w.query)
           item == CachedContent(Head(w.sources), w.query, effective_ttl(w.ttl),
                                 th[t].t0)
       IN  LockExit(t, "cache_content", <<Head(w.sources), w.query, w.ttl>>,
                    cache_content(cache, statistics, key, item, cm.max_size))

\* datetime.now() advances. The step is taken only where a later reading of the
\* clock can tell: while no thread is in an operation, after cache_content has
\* built its CachedContent, and between the two expiry checks of
\* get_cached_content.
CacheTick ==
    /\ now + TickStep <= MaxCacheTime
    /\ \/ \A t \in CacheThreads : th[t].pc = "idle"
       \/ \E t \in CacheThreads : th[t].pc = "waiting" /\ th[t].op = "cache_content"
       \/ \E t \in CacheThreads : th[t].pc = "locked" /\ th[t].op = "get_cached_content"
    /\ now' = now + TickStep
    /\ UNCHANGED <<config, breakers, lock, result, streak, trials, cwf, scvars,
                   cachevars, client, agent, purevars>>

\* CacheManager(max_size, default_ttl) used by n threads
InitCacheManager(n) ==
    /\ cm \in [max_size : 0..MaxSize, default_ttl : DefaultTtls, threads : {n}]
    /\ cache = <<>>
    /\ statistics = CacheStatistics
    /\ cache_lock = 0
    /\ th = [t \in 1..n |-> IdleThread]
    /\ last_done = NoDone
    /\ ops = 0
    /\ now = 0
    /\ config = <<>>
    /\ breakers = <<>>
    /\ lock = <<>>
    /\ result = NoResult
    /\ streak = <<>>
    /\ trials = <<>>
    /\ cwf = CwfIdle
    /\ NoScraper
    /\ NoClient
    /\ NoAgent
    /\ NoAssessor
    /\ NoRanker

CallAny == \E t \in CacheThreads : Call(t)
CallEnteringAny ==
    \E t \in CacheThreads : \E op \in CacheOps \ {"cache_content"} : CallEntering(t, op)
LockEnterAny == \E t \in CacheThreads : LockEnter(t)
GetCachedContentAny ==
    \E t \in CacheThreads : \E u \in LookupUrls : \E q \in RawQueries :
        GetCachedContent(t, u, q)
CacheContentAny ==
    \E t \in CacheThreads : \E x \in Contents : \E q \in RawQueries :
        \E ttl \in TtlArgs : CacheContent(t, x, q, ttl)
InvalidateUrlAny == \E t \in CacheThreads : \E u \in LookupUrls : InvalidateUrl(t, u)
InvalidateQueryAny ==
    \E t \in CacheThreads : \E q \in RawQueries : InvalidateQuery(t, q)
ClearCacheAny == \E t \in CacheThreads : ClearCache(t)
CleanupExpiredEntriesAny == \E t \in CacheThreads : CleanupExpiredEntries(t)
WarmCacheForQueryAny ==
    \E t \in CacheThreads : \E q \in WarmQueries : \E srcs \in WarmSources :
        \E ttl \in TtlArgs : WarmCacheForQuery(t, q, srcs, ttl)
WarmGetAny == \E t \in CacheThreads : WarmGet(t)
WarmCacheAny == \E t \in CacheThreads : WarmCache(t)

NextCache ==
    \/ CacheTick
    \/ CallAny \/ CallEnteringAny \/ LockEnterAny
    \/ GetCachedContentAny \/ CacheContentAny
    \/ InvalidateUrlAny \/ InvalidateQueryAny
    \/ ClearCacheAny \/ CleanupExpiredEntriesAny
    \/ WarmCacheForQueryAny \/ WarmGetAny \/ WarmCacheAny

\* one CacheManager used by one thread
InitCache == InitCacheManager(1)
SpecCache == InitCache /\ [][NextCache]_vars

\* one CacheManager shared by two threads
InitCacheMT == InitCacheManager(2)
SpecCacheMT == InitCacheMT /\ [][NextCache]_vars

(***************************************************************************)
(* app/search_client.py                                                    *)
(***************************************************************************)
\* CacheManager.__init__: max_size when the caller gives none, as
\* OptimizedSearchClient.__init__ does
DefaultMaxSize == 1000

\* the cache_ttl given to OptimizedSearchClient, in seconds
CacheTtl == 60

\* the port that https implies, written after the host
DefaultPort == <<":", "4", "4", "3">>

\* the urls of the search results: https://a, https://b/ and https://a:443
SourceUrls == {<<"a">>, <<"b", "/">>, <<"a">> \o DefaultPort}

\* str(HttpUrl(url)): the url of an EnhancedSource that is built from a str
\* (search_client.py:226-227, read back by cache_manager.py:205 and 209). The
\* host is put in lower case, the default port of the scheme is dropped and an
\* empty path becomes "/".
HttpUrl(url) ==
    LET host == lower(SubSeq(url, 1, 1))
        rest == Tail(url)
        path == IF startswith(rest, DefaultPort)
                THEN SubSeq(rest, Len(DefaultPort) + 1, Len(rest))
                ELSE rest
    IN  host \o (IF path = <<>> THEN <<"/">> ELSE path)

\* query_analysis.complexity.value
Complexities == {"simple", "moderate", "complex"}

\* ranked_sources[:max_sources]: the sequences of at most MaxTop different
\* search results
TopSources ==
    {s \in UNION {[1..n -> SourceUrls] : n \in 0..MaxTop} :
        \A i, j \in 1..Len(s) : i # j => s[i] # s[j]}

\* what scrape_sources_parallel may return for the sources it is given: a
\* result for some of them, at least one, in the order of completion, each a
\* failure or a success with content
ScrapedResults(sources) ==
    {rs \in UNION {[1..n -> {ScrapingResult(sources[i], TRUE, c, None) :
                                i \in 1..Len(sources),
                                c \in {"quality_content", "poor_content"}}
                            \cup {ScrapingResult(sources[i], FALSE, None, "Timeout") :
                                    i \in 1..Len(sources)}] :
                   n \in 1..Len(sources)} :
        \A i, j \in 1..Len(rs) : i # j => rs[i].url # rs[j].url}

\* _process_scraping_results, lines 216-223: the assessed content passes the
\* thresholds on relevance, length and density
passes_quality_filter(content) == content = "quality_content"

\* _apply_stopping_criteria
apply_stopping_criteria(sources, complexity) ==
    IF sources = <<>>
    THEN sources
    ELSE LET limit == IF complexity = "simple" THEN 5
                      ELSE IF complexity = "moderate" THEN 8 ELSE 12
             max_sources == IF limit < Len(sources) THEN limit ELSE Len(sources)
         IN  SubSeq(sources, 1, max_sources)

\* a cache entry that a request wrote: the url of the ranked source it was
\* fetched from, the query, and the time the entry expires
Written(url, query, expiry_time) ==
    [url |-> url, query |-> query, expiry_time |-> expiry_time]

\* OptimizedSearchClient() between two requests
ClientIdle ==
    [pc |-> "idle", query |-> <<>>, complexity |-> "simple", top_sources |-> <<>>,
     k |-> 1, cached_sources |-> <<>>, sources_to_scrape |-> <<>>,
     scraped_results |-> <<>>, successful_sources |-> <<>>,
     final_sources |-> <<>>, requests |-> 0, written |-> {}]

\* search_and_scrape_multiple_sources(query), steps 1 to 5: the analysis, the
\* web search, the filter and the ranking give the complexity and top_sources
StartRequest ==
    /\ client.pc = "idle"
    /\ client.requests < MaxRequests
    /\ \E q \in RawQueries : \E c \in Complexities : \E srcs \in TopSources :
         client' = [client EXCEPT !.pc = "check", !.query = q, !.complexity = c,
                                  !.top_sources = srcs, !.k = 1,
                                  !.cached_sources = <<>>,
                                  !.sources_to_scrape = <<>>,
                                  !.scraped_results = <<>>,
                                  !.successful_sources = <<>>,
                                  !.final_sources = <<>>,
                                  !.requests = @ + 1]
    /\ UNCHANGED <<cbvars, scvars, cachevars, agent, purevars>>

\* _check_cache, one turn of its loop (lines 185-200): get_cached_content with
\* its cleanup for the next source
CheckCache ==
    /\ client.pc = "check"
    /\ client.k <= Len(client.top_sources)
    /\ LET source == client.top_sources[client.k]
           key == generate_cache_key(source, client.query)
           e == cleanup_expired(cache, statistics, now)
           r == get_cached_content(e.cache, e.statistics, key, now)
       IN  /\ cache' = r.cache
           /\ statistics' = r.statistics
           /\ client' =
                IF r.ret # <<>>
                THEN [client EXCEPT !.k = @ + 1,
                                    !.cached_sources = Append(@, r.ret[1])]
                ELSE [client EXCEPT !.k = @ + 1,
                                    !.sources_to_scrape = Append(@, source)]
    /\ UNCHANGED <<cbvars, scvars, cm, cache_lock, th, last_done, ops, agent, purevars>>

\* step 7 (lines 109-117): asyncio.run(scrape_sources_parallel(...)) returns
ScrapeSources ==
    /\ client.pc = "check"
    /\ client.k > Len(client.top_sources)
    /\ client.sources_to_scrape # <<>>
    /\ \E rs \in ScrapedResults(client.sources_to_scrape) :
         client' = [client EXCEPT !.pc = "process", !.k = 1, !.scraped_results = rs]
    /\ UNCHANGED <<cbvars, scvars, cachevars, agent, purevars>>

\* step 7 when every source was found in the cache: nothing is scraped
SkipScraping ==
    /\ client.pc = "check"
    /\ client.k > Len(client.top_sources)
    /\ client.sources_to_scrape = <<>>
    /\ client' = [client EXCEPT !.pc = "process", !.k = 1]
    /\ UNCHANGED <<cbvars, scvars, cachevars, agent, purevars>>

\* _process_scraping_results, one turn of its loop (lines 209-250)
ProcessResult ==
    /\ client.pc = "process"
    /\ client.k <= Len(client.scraped_results)
    /\ LET scraped == client.scraped_results[client.k]
       IN  IF scraped.success /\ scraped.content # None
              /\ passes_quality_filter(scraped.content)
           THEN LET enhanced_source == EnhancedSource(HttpUrl(scraped.url))
                    key == generate_cache_key(enhanced_source.url, client.query)
                    item == CachedContent(enhanced_source, client.query,
                                          cm.default_ttl, now)
                    e == cleanup_expired(cache, statistics, now)
                    w == cache_content(e.cache, e.statistics, key, item, cm.max_size)
                IN  /\ cache' = w.cache
                    /\ statistics' = w.statistics
                    /\ client' =
                         [client EXCEPT
                            !.k = @ + 1,
                            !.successful_sources = Append(@, scraped.url),
                            !.written = @ \cup {Written(scraped.url, client.query,
                                                        item.expiry_time)}]
           ELSE /\ client' = [client EXCEPT !.k = @ + 1]
                /\ UNCHANGED <<cache, statistics>>
    /\ UNCHANGED <<cbvars, scvars, cm, cache_lock, th, last_done, ops, agent, purevars>>

\* steps 9 and 10 (lines 125-139): the request returns final_sources and its
\* locals are gone
ReturnSources ==
    /\ client.pc = "process"
    /\ client.k > Len(client.scraped_results)
    /\ client' =
         [ClientIdle EXCEPT
            !.requests = client.requests,
            !.written = client.written,
            !.final_sources =
               apply_stopping_criteria(
                  [i \in 1..Len(client.cached_sources) |->
                      client.cached_sources[i].url]
                  \o client.successful_sources, client.complexity)]
    /\ UNCHANGED <<cbvars, scvars, cachevars, agent, purevars>>

\* OptimizedSearchClient(cache_ttl=CacheTtl)
InitClient ==
    /\ client = ClientIdle
    /\ cm = [max_size |-> DefaultMaxSize, default_ttl |-> CacheTtl, threads |-> 1]
    /\ cache = <<>>
    /\ statistics = CacheStatistics
    /\ cache_lock = 0
    /\ th = <<>>
    /\ last_done = NoDone
    /\ ops = 0
    /\ now = 0
    /\ config = <<>>
    /\ breakers = <<>>
    /\ lock = <<>>
    /\ result = NoResult
    /\ streak = <<>>
    /\ trials = <<>>
    /\ cwf = CwfIdle
    /\ NoScraper
    /\ NoAgent
    /\ NoAssessor
    /\ NoRanker

NextClient ==
    \/ Tick \/ StartRequest \/ CheckCache \/ ScrapeSources \/ SkipScraping
    \/ ProcessResult \/ ReturnSources
SpecClient == InitClient /\ [][NextClient]_vars

(***************************************************************************)
(* app/agent.py                                                            *)
(***************************************************************************)
\* EnhancedAgent.__init__: AIServiceCircuitBreaker() with the thresholds of
\* the pollinations breaker set anew (lines 43-47)
EnhancedAgentConfig ==
    [AIServiceConfig EXCEPT ![PRIMARY].failure_threshold = 10,
                            ![PRIMARY].recovery_timeout = 30]

\* a source dictionary: whether EnhancedSource accepts its url, and whether it
\* has main_content
SourceDicts == [valid_url : BOOLEAN, main_content : {"", "text"}]
SourceLists == UNION {[1..n -> SourceDicts] : n \in 0..MaxAgentSources}

\* _convert_to_enhanced_sources: the sources EnhancedSource accepts, the others
\* are skipped with a warning
convert_to_enhanced_sources(sources) == SelectSeq(sources, LAMBDA s : s.valid_url)

\* what synthesize_response gave its caller: the kind of answer, or that it
\* raised; the number of sources the answer was built from; how the dispatch
\* through the breakers had ended ("none" when it was not reached)
Answer(kind, sources, dispatch) ==
    [kind |-> kind, built_from |-> Len(sources), dispatch |-> dispatch]
NoAnswer == Answer("none", <<>>, "none")

\* _generate_emergency_fallback(query, sources): the apology without sources,
\* else the start of the main_content of the first three sources that have some
generate_emergency_fallback(sources, dispatch) ==
    IF sources = <<>>
    THEN Answer("no_sources_apology", sources, dispatch)
    ELSE Answer("basic_response",
                SelectSeq(SubSeq(sources, 1, IF Len(sources) < 3 THEN Len(sources) ELSE 3),
                          LAMBDA s : s.main_content # ""),
                dispatch)

\* AdaptiveSummaryGenerator.generate_summary with the note of line 437
generate_fallback_summary(sources, dispatch) ==
    IF sources = <<>>
    THEN Answer("no_sources_found", sources, dispatch)
    ELSE Answer("fallback_summary", sources, dispatch)

\* a synthesize_response whose inner try is missing and whose outer handler
\* lets the error of the AI dispatch pass
handler_of_unprotected(stage) ==
    IF stage = "ai_summary" THEN "caller" ELSE "emergency"

\* synthesize_response and _generate_fallback_response: the handler that an
\* exception raised in a stage reaches (lines 84, 89 and 439)
handler_of(stage) ==
    IF stage = "ai_summary" THEN "fallback_response" ELSE "emergency"

\* whether generate_summary raises
Raises == {FALSE, TRUE}

\* the call in progress: where it is and how its dispatch ended. Its sources
\* argument is not changed by the call and is drawn where it is read.
AgentIdle == [pc |-> "idle", dispatch |-> "none", answer |-> NoAnswer]

\* where an exception raised in stage leaves the call: in
\* _generate_fallback_response, or back at the caller with the emergency answer
\* (of the source dictionaries in line 91, of the converted sources in line
\* 441) or with the exception
agent_after_raise(a, stage, dispatch, sources) ==
    LET h == handler_of(stage) IN
    IF h = "fallback_response"
    THEN [a EXCEPT !.pc = "fallback", !.dispatch = dispatch]
    ELSE IF h = "emergency"
    THEN [AgentIdle EXCEPT
            !.answer = generate_emergency_fallback(
                          IF stage = "fallback_summary"
                          THEN convert_to_enhanced_sources(sources)
                          ELSE sources, dispatch)]
    ELSE [AgentIdle EXCEPT !.answer = Answer("raised", <<>>, dispatch)]

\* synthesize_response(query, sources) up to the dispatch (lines 71-82 and
\* 110-127): analyze_query raises, or create_summary_prompt does, or neither
SynthesizeStart ==
    /\ agent.pc = "idle"
    /\ cwf.pc = "idle"
    /\ breakers[PRIMARY].total_calls < MaxCalls
    /\ breakers[FALLBACK].total_calls < MaxCalls
    /\ \/ \E sources \in SourceLists :
             agent' = agent_after_raise(AgentIdle, "analysis", "none", sources)
       \/ agent' = agent_after_raise(AgentIdle, "ai_summary", "none", <<>>)
       \/ agent' = [AgentIdle EXCEPT !.pc = "dispatch"]
    /\ cwf' = CwfIdle
    /\ UNCHANGED <<now, config, breakers, lock, result, streak, trials, scvars,
                   cachevars, client, purevars>>

\* _generate_ai_summary, line 127: call_with_fallback is entered
DispatchEnter ==
    /\ agent.pc = "dispatch"
    /\ cwf = CwfIdle
    /\ CwfPrimaryEnter

\* _generate_ai_summary, lines 131-132: call_with_fallback returned a result
DispatchReturn ==
    /\ agent.pc = "dispatch"
    /\ cwf.pc = "idle"
    /\ cwf.seen \in {"primary_result", "fallback_result"}
    /\ \E sources \in SourceLists :
         agent' = [AgentIdle EXCEPT
                     !.answer = Answer("ai_result",
                                       convert_to_enhanced_sources(sources), cwf.seen)]
    /\ UNCHANGED <<cbvars, scvars, cachevars, client, purevars>>

\* _generate_ai_summary, lines 134-136: call_with_fallback raised, and the
\* error is raised again
DispatchRaise ==
    /\ agent.pc = "dispatch"
    /\ cwf.pc = "idle"
    /\ cwf.seen \notin {"none", "primary_result", "fallback_result"}
    /\ agent' = agent_after_raise(agent, "ai_summary", cwf.seen, <<>>)
    /\ UNCHANGED <<cbvars, scvars, cachevars, client, purevars>>

\* _generate_fallback_response (lines 427-441)
FallbackResponse ==
    /\ agent.pc = "fallback"
    /\ \E sources \in SourceLists : \E summary \in Raises :
         agent' = IF summary
                  THEN agent_after_raise(agent, "fallback_summary", agent.dispatch,
                                         sources)
                  ELSE [AgentIdle EXCEPT
                          !.answer = generate_fallback_summary(
                                        convert_to_enhanced_sources(sources),
                                        agent.dispatch)]
    /\ UNCHANGED <<cbvars, scvars, cachevars, client, purevars>>

\* EnhancedAgent()
InitAgent ==
    /\ now = 0
    /\ config = EnhancedAgentConfig
    /\ breakers = [n \in DOMAIN EnhancedAgentConfig |-> CircuitBreakerStats]
    /\ lock = [n \in DOMAIN EnhancedAgentConfig |-> "free"]
    /\ result = NoResult
    /\ streak = [n \in DOMAIN EnhancedAgentConfig |-> 0]
    /\ trials = [n \in DOMAIN EnhancedAgentConfig |-> 0]
    /\ cwf = CwfIdle
    /\ NoScraper
    /\ NoCache
    /\ client = <<>>
    /\ agent = AgentIdle
    /\ NoAssessor
    /\ NoRanker

NextAgent ==
    \/ Tick \/ SynthesizeStart \/ DispatchEnter
    \/ CwfPrimaryReturn \/ CwfPrimaryRaise
    \/ CwfFallbackEnter \/ CwfFallbackReturn \/ CwfFallbackRaise
    \/ DispatchReturn \/ DispatchRaise \/ FallbackResponse
SpecAgent == InitAgent /\ [][NextAgent]_vars

(***************************************************************************)
(* app/content_quality_assessor.py: should_continue_scraping               *)
(*                                                                         *)
(* relevance_score and information_density are floats of [0, 1]; the model *)
(* counts them in hundredths, so that 0.5 is 50 and 0.8 is 80.             *)
(***************************************************************************)
MaxGathered == 3       \* most ContentQuality objects of gathered_content
MaxSufficient == 3     \* largest sufficient_content_threshold

MinContentLength == 100          \* min_content_length
MinInformationDensity == 30      \* min_information_density, 0.3
QualityRelevance == 50           \* relevance_score >= 0.5
HighRelevance == 80              \* relevance_score >= 0.8
SubstantialLength == 1000        \* total_content_length >= 1000

\* the ContentQuality objects of the model: each comparison of the function
\* has a value on either side of it
ContentQualities ==
    [relevance_score : {QualityRelevance - 1, QualityRelevance, HighRelevance},
     content_length : {MinContentLength - 1, MinContentLength,
                       SubstantialLength \div 2},
     information_density : {MinInformationDensity - 1, MinInformationDensity},
     duplicate_content : BOOLEAN]

GatheredContents ==
    UNION {[1..n -> ContentQualities] : n \in 0..MaxGathered}

\* the filter of quality_content
IsQualityContent(a, content) ==
    /\ ~content.duplicate_content
    /\ content.relevance_score >= QualityRelevance
    /\ content.information_density >= a.min_information_density
    /\ content.content_length >= a.min_content_length

quality_content(a, gathered_content) ==
    SelectSeq(gathered_content, LAMBDA content : IsQualityContent(a, content))

high_relevance_content(quality) ==
    SelectSeq(quality, LAMBDA content : content.relevance_score >= HighRelevance)

RECURSIVE total_content_length(_)
total_content_length(quality) ==
    IF quality = <<>> THEN 0
    ELSE Head(quality).content_length + total_content_length(Tail(quality))

should_continue_scraping(a, gathered_content) ==
    IF gathered_content = <<>> THEN TRUE
    ELSE LET quality == quality_content(a, gathered_content)
         IN  IF Len(quality) >= a.sufficient_content_threshold THEN FALSE
             ELSE IF /\ Len(high_relevance_content(quality)) >= 2
                     /\ total_content_length(quality) >= SubstantialLength
                  THEN FALSE
                  ELSE TRUE

\* ContentQualityAssessor(sufficient_content_threshold=...), about to be asked
\* about one list of gathered content
InitAssessor ==
    /\ \E t \in 1..MaxSufficient, g \in GatheredContents :
          assessor = [min_content_length |-> MinContentLength,
                      min_information_density |-> MinInformationDensity,
                      sufficient_content_threshold |-> t,
                      gathered_content |-> g,
                      pc |-> "idle",
                      returned |-> <<>>]
    /\ now = 0
    /\ config = <<>>
    /\ breakers = <<>>
    /\ lock = <<>>
    /\ result = NoResult
    /\ streak = <<>>
    /\ trials = <<>>
    /\ cwf = CwfIdle
    /\ NoScraper
    /\ NoCache
    /\ NoClient
    /\ NoAgent
    /\ NoRanker

ShouldContinueScraping ==
    /\ assessor # <<>>
    /\ assessor.pc = "idle"
    /\ assessor' = [assessor EXCEPT
                       !.pc = "returned",
                       !.returned = <<should_continue_scraping(
                                          assessor, assessor.gathered_content)>>]
    /\ UNCHANGED <<cbvars, scvars, cachevars, client, agent, ranker>>

NextAssessor == ShouldContinueScraping
SpecAssessor == InitAssessor /\ [][NextAssessor]_vars

(***************************************************************************)
(* app/source_ranker.py: rank_sources                                      *)
(*                                                                         *)
(* The scores are floats of [0, 1].  The model counts a component score in *)
(* units of 1/1200 (One is 1.0) and a final score, the sum of the          *)
(* components times their weights in hundredths, in units of 1/120000;     *)
(* every score of the model is a whole number of these units.  A search    *)
(* result is held as what the calculators read from its url, title and     *)
(* snippet: the keywords they contain as substrings, the labels of the     *)
(* netloc, the counts of path segments and query parameters, and the       *)
(* patterns found.                                                         *)
(***************************************************************************)
MaxResults == 3        \* most search_results given to rank_sources
MaxRankings == 2       \* calls of rank_sources on the same arguments

One == 1200            \* the score 1.0

scoring_weights ==
    [relevance |-> 40, authority |-> 30, freshness |-> 15, url_quality |-> 15]

high_authority_domains ==
    {<<"reuters", "com">>, <<"bbc", "com">>, <<"cnn", "com">>,
     <<"npr", "org">>, <<"apnews", "com">>, <<"theguardian", "com">>,
     <<"nytimes", "com">>, <<"wsj", "com">>, <<"washingtonpost", "com">>,
     <<"ncbi", "nlm", "nih", "gov">>,
     <<"pubmed", "ncbi", "nlm", "nih", "gov">>,
     <<"scholar", "google", "com">>, <<"arxiv", "org">>,
     <<"researchgate", "net">>, <<"ieee", "org">>, <<"acm", "org">>,
     <<"gov", "uk">>, <<"cdc", "gov">>, <<"nih", "gov">>, <<"fda", "gov">>,
     <<"who", "int">>, <<"europa", "eu">>, <<"un", "org">>,
     <<"worldbank", "org">>, <<"stackoverflow", "com">>, <<"github", "com">>,
     <<"mozilla", "org">>, <<"w3", "org">>,
     <<"developer", "mozilla", "org">>, <<"docs", "python", "org">>,
     <<"kubernetes", "io">>, <<"wikipedia", "org">>, <<"britannica", "com">>,
     <<"merriam-webster", "com">>, <<"dictionary", "com">>,
     <<"investopedia", "com">>, <<"khanacademy", "org">>,
     <<"mayoclinic", "org">>, <<"webmd", "com">>, <<"healthline", "com">>,
     <<"medlineplus", "gov">>, <<"clevelandclinic", "org">>,
     <<"hopkinsmedicine", "org">>}

\* the search results of the model, by url, with their title | snippet:
\*   github.com/python/cpython   Python programming software | A detailed
\*                               study of the computer language, updated
\*                               March 2024
\*   blog.github.com/news/...    Latest news: breaking update | what is new
\*   example.com/a               What is a definition | meaning of words
\*   example.net/b               What is a definition | meaning of words
\*   www.mit.edu/research/...    no title, no snippet
\*   example.org/article/how-to  Guide | no snippet
\* title and snippet say whether the text is there
SearchResults ==
    {[url |-> "https://github.com/python/cpython",
      title |-> TRUE, snippet |-> TRUE,
      content_keywords |-> {"ai", "computer", "detailed", "programming",
                           "software", "study", "update"},
      title_keywords |-> {"programming", "software"},
      netloc |-> <<"github", "com">>,
      path_segments |-> 2, query_params |-> 0,
      readable |-> FALSE, suspicious |-> FALSE,
      recent_year |-> TRUE, recent_month |-> TRUE, freshness_keyword |-> TRUE],
     [url |-> "https://blog.github.com/news/2023/release",
      title |-> TRUE, snippet |-> TRUE,
      content_keywords |-> {"breaking", "latest", "news", "update", "what"},
      title_keywords |-> {"breaking", "latest", "news", "update"},
      netloc |-> <<"blog", "github", "com">>,
      path_segments |-> 3, query_params |-> 0,
      readable |-> TRUE, suspicious |-> FALSE,
      recent_year |-> TRUE, recent_month |-> FALSE, freshness_keyword |-> TRUE],
     [url |-> "https://example.com/a",
      title |-> TRUE, snippet |-> TRUE,
      content_keywords |-> {"definition", "meaning", "what"},
      title_keywords |-> {"definition", "what"},
      netloc |-> <<"example", "com">>,
      path_segments |-> 1, query_params |-> 0,
      readable |-> FALSE, suspicious |-> FALSE,
      recent_year |-> FALSE, recent_month |-> FALSE, freshness_keyword |-> FALSE],
     [url |-> "https://example.net/b",
      title |-> TRUE, snippet |-> TRUE,
      content_keywords |-> {"definition", "meaning", "what"},
      title_keywords |-> {"definition", "what"},
      netloc |-> <<"example", "net">>,
      path_segments |-> 1, query_params |-> 0,
      readable |-> FALSE, suspicious |-> FALSE,
      recent_year |-> FALSE, recent_month |-> FALSE, freshness_keyword |-> FALSE],
     [url |-> "https://www.mit.edu/research/ai/lab/papers/2019/index.html?id=7&ref=x&utm_source=y",
      title |-> FALSE, snippet |-> FALSE,
      content_keywords |-> {},
      title_keywords |-> {},
      netloc |-> <<"www", "mit", "edu">>,
      path_segments |-> 6, query_params |-> 3,
      readable |-> FALSE, suspicious |-> TRUE,
      recent_year |-> FALSE, recent_month |-> FALSE, freshness_keyword |-> FALSE],
     [url |-> "https://example.org/article/how-to?page=2",
      title |-> TRUE, snippet |-> FALSE,
      content_keywords |-> {"guide"},
      title_keywords |-> {"guide"},
      netloc |-> <<"example", "org">>,
      path_segments |-> 2, query_params |-> 1,
      readable |-> TRUE, suspicious |-> FALSE,
      recent_year |-> FALSE, recent_month |-> FALSE, freshness_keyword |-> FALSE]}

\* keywords are compared in lower case
domain_keywords(domain) ==
    CASE domain = "technology" ->
            <<"tech", "software", "programming", "computer", "digital", "ai",
              "machine learning">>
      [] domain = "health" ->
            <<"health", "medical", "medicine", "doctor", "treatment", "disease",
              "symptoms">>
      [] domain = "science" ->
            <<"research", "study", "scientific", "experiment", "analysis", "data">>
      [] domain = "business" ->
            <<"business", "company", "market", "finance", "economy", "industry">>
      [] domain = "news" ->
            <<"news", "breaking", "report", "update", "latest", "current">>
      [] domain = "education" ->
            <<"education", "learning", "course", "tutorial", "guide", "how-to">>
      [] OTHER -> <<>>

intent_keywords(intent) ==
    CASE intent = "FACTUAL" ->
            <<"what", "who", "when", "where", "definition", "meaning">>
      [] intent = "RESEARCH" ->
            <<"analysis", "study", "research", "comprehensive", "detailed">>
      [] intent = "COMPARISON" ->
            <<"vs", "versus", "compare", "comparison", "difference", "better">>
      [] intent = "HOWTO" ->
            <<"how", "tutorial", "guide", "step", "instructions", "method">>
      [] intent = "NEWS" ->
            <<"news", "latest", "recent", "breaking", "update", "current">>
      [] OTHER -> <<>>

\* the keywords of the list found in a text, a keyword listed twice counted twice
keyword_matches(keywords, found) ==
    Cardinality({i \in DOMAIN keywords : keywords[i] \in found})

MinOf(a, b) == IF a <= b THEN a ELSE b
MaxOf(a, b) == IF a >= b THEN a ELSE b

calculate_relevance_score(r, qa) ==
    IF ~r.title /\ ~r.snippet THEN 0
    ELSE LET keywords == domain_keywords(qa.domain) \o intent_keywords(qa.intent)
             total_keywords == Len(keywords)
             keyword_score ==
                 IF total_keywords > 0
                 THEN (keyword_matches(keywords, r.content_keywords) * One)
                          \div total_keywords
                 ELSE One \div 2
             title_boost ==
                 IF r.title
                 THEN keyword_matches(keywords, r.title_keywords) * (One \div 10)
                 ELSE 0
         IN  MinOf(One, keyword_score + title_boost)

\* domain.endswith('.' + suffix), on the labels of the two names
EndsWithDomain(domain, suffix) ==
    /\ Len(domain) > Len(suffix)
    /\ SubSeq(domain, Len(domain) - Len(suffix) + 1, Len(domain)) = suffix

calculate_authority_score(r) ==
    LET domain == IF Len(r.netloc) >= 2 /\ Head(r.netloc) = "www"
                  THEN Tail(r.netloc) ELSE r.netloc
    IN  IF domain \in high_authority_domains THEN One
        ELSE IF \E auth_domain \in high_authority_domains :
                    EndsWithDomain(domain, auth_domain)
             THEN (8 * One) \div 10
        ELSE IF EndsWithDomain(domain, <<"gov">>) \/ EndsWithDomain(domain, <<"edu">>)
             THEN (9 * One) \div 10
        ELSE IF EndsWithDomain(domain, <<"org">>) THEN (6 * One) \div 10
        ELSE (3 * One) \div 10

\* recency_importance is counted in hundredths
calculate_freshness_score(r, qa) ==
    LET base == One \div 2
               + (IF r.recent_year THEN (2 * One) \div 10 ELSE 0)
               + (IF r.recent_month THEN One \div 10 ELSE 0)
               + (IF r.freshness_keyword THEN One \div 10 ELSE 0)
        freshness_score ==
            IF qa.recency_importance > 70
            THEN (base * (200 + qa.recency_importance)) \div 200
            ELSE base
    IN  MinOf(One, freshness_score)

calculate_url_quality_score(r) ==
    LET depth == IF r.path_segments <= 2 THEN (2 * One) \div 10
                 ELSE IF r.path_segments <= 4 THEN One \div 10
                 ELSE 0 - One \div 10
        params == IF r.query_params = 0 THEN (2 * One) \div 10
                  ELSE IF r.query_params <= 2 THEN One \div 10
                  ELSE 0 - One \div 10
        quality_score == One \div 2 + depth + params
                         + (IF r.readable THEN One \div 10 ELSE 0)
                         - (IF r.suspicious THEN One \div 10 ELSE 0)
    IN  MaxOf(0, MinOf(One, quality_score))

\* the SourceScore of one search result
score_source(r, qa) ==
    LET relevance_score == calculate_relevance_score(r, qa)
        authority_score == calculate_authority_score(r)
        freshness_score == calculate_freshness_score(r, qa)
        url_quality_score == calculate_url_quality_score(r)
    IN  [url |-> r.url,
         relevance_score |-> relevance_score,
         authority_score |-> authority_score,
         freshness_score |-> freshness_score,
         final_score |-> relevance_score * scoring_weights.relevance
                         + authority_score * scoring_weights.authority
                         + freshness_score * scoring_weights.freshness
                         + url_quality_score * scoring_weights.url_quality]

\* SourceScore.__post_init__ accepts the scores
ValidSourceScore(s) ==
    /\ s.relevance_score \in 0..One
    /\ s.authority_score \in 0..One
    /\ s.freshness_score \in 0..One
    /\ s.final_score \in 0..(100 * One)

\* a sort that gives the highest score first and reverses the order of the
\* sources of equal score
RECURSIVE sort_reversing_ties(_)
sort_reversing_ties(scored) ==
    IF scored = <<>> THEN <<>>
    ELSE LET sorted == sort_reversing_ties(SubSeq(scored, 1, Len(scored) - 1))
             x == scored[Len(scored)]
             k == Cardinality({i \in DOMAIN sorted :
                                  sorted[i].final_score > x.final_score})
         IN  SubSeq(sorted, 1, k) \o <<x>> \o SubSeq(sorted, k + 1, Len(sorted))

\* scored_sources.sort(key=final_score, reverse=True): the highest score
\* first, the sources of equal score in the order they had
RECURSIVE sort_by_final_score(_)
sort_by_final_score(scored) ==
    IF scored = <<>> THEN <<>>
    ELSE LET sorted == sort_by_final_score(SubSeq(scored, 1, Len(scored) - 1))
             x == scored[Len(scored)]
             k == Cardinality({i \in DOMAIN sorted :
                                  sorted[i].final_score >= x.final_score})
         IN  SubSeq(sorted, 1, k) \o <<x>> \o SubSeq(sorted, k + 1, Len(sorted))

\* what rank_sources gives its caller: the sorted list, or the ValueError of
\* a SourceScore that was refused
rank_sources(search_results, qa) ==
    LET scored_sources ==
            [i \in DOMAIN search_results |-> score_source(search_results[i], qa)]
    IN  IF \E i \in DOMAIN scored_sources : ~ValidSourceScore(scored_sources[i])
        THEN [raised |-> TRUE, value |-> <<>>]
        ELSE [raised |-> FALSE, value |-> sort_by_final_score(scored_sources)]

\* the query contexts of the model: with keywords of the domain or without,
\* with recency_importance on either side of 0.7
QueryAnalyses ==
    {[domain |-> "technology", intent |-> "RESEARCH", recency_importance |-> 30],
     [domain |-> "news", intent |-> "NEWS", recency_importance |-> 80],
     [domain |-> None, intent |-> "FACTUAL", recency_importance |-> 50]}

SearchResultLists ==
    UNION {[1..n -> SearchResults] : n \in 0..MaxResults}

\* SourceRanker(), about to rank one list of search results
InitRanker ==
    /\ \E s \in SearchResultLists, qa \in QueryAnalyses :
          ranker = [search_results |-> s,
                    query_analysis |-> qa,
                    returned |-> <<>>]
    /\ now = 0
    /\ config = <<>>
    /\ breakers = <<>>
    /\ lock = <<>>
    /\ result = NoResult
    /\ streak = <<>>
    /\ trials = <<>>
    /\ cwf = CwfIdle
    /\ NoScraper
    /\ NoCache
    /\ NoClient
    /\ NoAgent
    /\ NoAssessor

RankSources ==
    /\ ranker # <<>>
    /\ Len(ranker.returned) < MaxRankings
    /\ ranker' = [ranker EXCEPT
                     !.returned = Append(@, rank_sources(ranker.search_results,
                                                         ranker.query_analysis))]
    /\ UNCHANGED <<cbvars, scvars, cachevars, client, agent, assessor>>

NextRanker == RankSources
SpecRanker == InitRanker /\ [][NextRanker]_vars

(***************************************************************************)
(* Properties of the circuit breaker                                       *)
(***************************************************************************)

\* the step is call() being entered on breaker n
Entered(n) == breakers'[n].total_calls = breakers[n].total_calls + 1
\* the step is the wrapped function of a call on breaker n raising
Failed(n) == lock[n] # "free" /\ lock'[n] = "free" /\ streak'[n] = streak[n] + 1
\* the step is the wrapped function of a call on breaker n returning
Succeeded(n) == lock[n] # "free" /\ lock'[n] = "free" /\ streak'[n] = 0
\* seconds since the last recorded failure of breaker n
Elapsed(n) == now - breakers[n].last_failure_time[1]
\* breaker n is OPEN and recovery_timeout has not elapsed since its last failure
OpenAndWaiting(n) ==
    /\ breakers[n].state = OPEN
    /\ breakers[n].last_failure_time # NoTime
    /\ Elapsed(n) < config[n].recovery_timeout
\* breaker n is OPEN and recovery_timeout has elapsed since its last failure
OpenAndDue(n) ==
    /\ breakers[n].state = OPEN
    /\ breakers[n].last_failure_time # NoTime
    /\ Elapsed(n) >= config[n].recovery_timeout

\* C1: in CLOSED, a failed call opens the breaker exactly when it is the
\* failure_threshold-th failure in a row (no success or reset in between), and it
\* then records the time of that failure; with fewer failures in a row the breaker
\* stays CLOSED; a successful call in CLOSED sets failure_count to 0 and leaves the
\* breaker CLOSED.
C1_ClosedOpensAtThreshold ==
    [][\A n \in DOMAIN breakers :
        breakers[n].state = CLOSED =>
          /\ Failed(n) =>
               /\ breakers'[n].state = OPEN <=> streak'[n] >= config[n].failure_threshold
               /\ breakers'[n].state \in {OPEN, CLOSED}
               /\ breakers'[n].state = OPEN => breakers'[n].last_failure_time = <<now>>
          /\ Succeeded(n) =>
               /\ breakers'[n].failure_count = 0
               /\ breakers'[n].state = CLOSED]_vars

\* C1 witness: the breaker opened on the failure_threshold-th failure in a row, after
\* an earlier success, with a threshold of at least 2
C1_Witness ==
    /\ breakers[SERVICE].state = OPEN
    /\ result.outcome = "raised" /\ result.from = CLOSED
    /\ config[SERVICE].failure_threshold >= 2
    /\ streak[SERVICE] = config[SERVICE].failure_threshold
    /\ breakers[SERVICE].total_calls > streak[SERVICE]
    /\ breakers[SERVICE].total_failures > streak[SERVICE]

\* C2: a call() entered while the breaker is OPEN and less than recovery_timeout has
\* elapsed since last_failure_time is rejected, the wrapped function is not invoked,
\* and state, failure_count, total_failures and last_failure_time are unchanged.
C2_OpenRejects ==
    [][\A n \in DOMAIN breakers :
        (Entered(n) /\ OpenAndWaiting(n)) =>
          /\ result' = CallResult(n, "rejected", FALSE, OPEN)
          /\ lock'[n] = "free"
          /\ breakers'[n].state = OPEN
          /\ breakers'[n].failure_count = breakers[n].failure_count
          /\ breakers'[n].total_failures = breakers[n].total_failures
          /\ breakers'[n].last_failure_time = breakers[n].last_failure_time]_vars

\* C2 witness: a call was rejected some time after the failure that opened the breaker
C2_Witness ==
    /\ result = CallResult(SERVICE, "rejected", FALSE, OPEN)
    /\ OpenAndWaiting(SERVICE)
    /\ Elapsed(SERVICE) > 0

\* C3: a call() entered while the breaker is OPEN and recovery_timeout has elapsed
\* moves it to HALF_OPEN and invokes the wrapped function; when that trial returns
\* and success_threshold > 1 the breaker is HALF_OPEN after the call.
C3_TrialAfterTimeout ==
    [][\A n \in DOMAIN breakers :
        /\ (Entered(n) /\ OpenAndDue(n)) =>
              /\ breakers'[n].state = HALF_OPEN
              /\ lock'[n] = "call"
              /\ result' = CallResult(n, "executing", TRUE, OPEN)
        /\ (Succeeded(n) /\ result.name = n /\ result.from = OPEN
              /\ config[n].success_threshold > 1) =>
              /\ result'.outcome = "returned"
              /\ breakers'[n].state = HALF_OPEN]_vars

\* C3 witness: the trial admitted from OPEN returned and the breaker is HALF_OPEN
C3_Witness ==
    /\ result = CallResult(SERVICE, "returned", TRUE, OPEN)
    /\ config[SERVICE].success_threshold > 1
    /\ breakers[SERVICE].state = HALF_OPEN

\* C4: in HALF_OPEN a successful call that is not yet the success_threshold-th one
\* since the breaker became HALF_OPEN adds 1 to success_count and leaves the breaker
\* HALF_OPEN; the success_threshold-th one closes it with success_count and
\* failure_count both 0.
C4_HalfOpenCloses ==
    [][\A n \in DOMAIN breakers :
        (breakers[n].state = HALF_OPEN /\ Succeeded(n)) =>
          IF trials[n] + 1 >= config[n].success_threshold
          THEN /\ breakers'[n].state = CLOSED
               /\ breakers'[n].success_count = 0
               /\ breakers'[n].failure_count = 0
          ELSE /\ breakers'[n].state = HALF_OPEN
               /\ breakers'[n].success_count = breakers[n].success_count + 1
               /\ breakers'[n].success_count = trials[n] + 1]_vars

\* C4 witness: the breaker closed on the last of at least two trial successes
C4_Witness ==
    /\ breakers[SERVICE].state = CLOSED
    /\ result = CallResult(SERVICE, "returned", TRUE, HALF_OPEN)
    /\ config[SERVICE].success_threshold >= 2
    /\ breakers[SERVICE].success_count = 0
    /\ breakers[SERVICE].last_failure_time # NoTime

\* C5: a failed call in HALF_OPEN moves the breaker to OPEN whatever failure_count
\* is, and sets last_failure_time to the time of that failure, so that every call
\* made less than recovery_timeout later is rejected.
C5_HalfOpenFailureReopens ==
    [][\A n \in DOMAIN breakers :
        (breakers[n].state = HALF_OPEN /\ Failed(n)) =>
          /\ breakers'[n].state = OPEN
          /\ breakers'[n].last_failure_time = <<now>>
          /\ \A t \in now..(now + config[n].recovery_timeout - 1) :
                admit(breakers'[n], config[n], t).rejected]_vars

\* C5 witness: a trial succeeded, the next call failed in HALF_OPEN, and the breaker
\* is OPEN with fewer than failure_threshold failures in a row
C5_Witness ==
    /\ breakers[SERVICE].state = OPEN
    /\ result = CallResult(SERVICE, "raised", TRUE, HALF_OPEN)
    /\ breakers[SERVICE].failure_count < config[SERVICE].failure_threshold
    /\ breakers[SERVICE].last_failure_time = <<now>>

(***************************************************************************)
(* Properties of call_with_fallback                                        *)
(***************************************************************************)

\* C6: when the primary call returns, call_with_fallback returns its result, the
\* fallback was not invoked and no step of that invocation changed the fallback's
\* breaker; when the primary raises, or is rejected by its OPEN breaker without
\* being invoked, the next step is call() on the fallback's breaker, and when the
\* fallback returns its result is what call_with_fallback returns.
C6_FallbackOnlyAfterPrimaryFails ==
    [][/\ (cwf.pc \in {"idle", "primary"} /\ cwf' # cwf) =>
            breakers'[FALLBACK] = breakers[FALLBACK]
       /\ (cwf.pc = "primary" /\ cwf'.pc = "idle") =>
            /\ Succeeded(PRIMARY)
            /\ cwf'.seen = "primary_result"
            /\ cwf'.fallback = "none"
       /\ (cwf.pc = "primary" /\ cwf'.pc = "except") => Failed(PRIMARY)
       /\ (cwf.pc = "idle" /\ cwf'.pc = "except") =>
            /\ OpenAndWaiting(PRIMARY)
            /\ lock' = lock
       /\ (cwf.pc = "except" /\ cwf' # cwf) =>
            /\ Entered(FALLBACK)
            /\ breakers'[PRIMARY] = breakers[PRIMARY]
       /\ (cwf.pc = "fallback" /\ cwf'.pc = "idle" /\ Succeeded(FALLBACK)) =>
            cwf'.seen = "fallback_result"
       /\ cwf'.seen = "fallback_result" =>
            cwf'.primary \in {"raised", "rejected"} /\ cwf'.fallback = "returned"]_vars

\* C6 witness: the primary was rejected by its OPEN breaker and the fallback's
\* result was returned
C6_Witness ==
    /\ cwf.pc = "idle"
    /\ cwf.primary = "rejected"
    /\ cwf.fallback = "returned"
    /\ cwf.seen = "fallback_result"
    /\ breakers[PRIMARY].state = OPEN

\* C7: whenever call_with_fallback ends with the primary raised or rejected and the
\* fallback raised or rejected, its caller sees the aggregated "All AI services are
\* currently unavailable" error and nothing else.
C7_OnlyAggregatedError ==
    /\ (cwf.pc = "idle" /\ cwf.primary \in {"raised", "rejected"}
          /\ cwf.fallback \in {"raised", "rejected"}) => cwf.seen = "all_unavailable"
    /\ cwf.seen \in {"none", "primary_result", "fallback_result", "all_unavailable"}

\* C7 witness: both breakers were OPEN: both calls were rejected and the caller saw
\* the aggregated error
C7_Witness ==
    /\ cwf.pc = "idle"
    /\ cwf.primary = "rejected"
    /\ cwf.fallback = "rejected"
    /\ cwf.seen = "all_unavailable"

(***************************************************************************)
(* Properties of scrape_sources_parallel                                   *)
(***************************************************************************)

\* the urls of the results in the list
ResultUrls == {results[k].url : k \in 1..Len(results)}
\* the results of the list that pass the quality check
QualityResults == {k \in 1..Len(results) : should_terminate_early(results[k])}
\* the task has neither finished nor been cancelled
Unfinished(i) == task[i] \notin {"done", "cancelled"}

\* C8: at every moment the number of scrape_url invocations started and not yet
\* returned is at most max_concurrent.
C8_InFlightBounded ==
    pc # "none" => InFlight <= mgr.max_concurrent

\* C9: with early termination enabled, the iteration in which
\* quality_sources_count reaches min_quality_sources requests the cancellation of
\* every unfinished task and leaves the loop; from then on every unfinished task
\* can end without any scrape_url run completing; and the list returned after an
\* early termination holds at least min_quality_sources results that pass the
\* quality check.
C9_EarlyTermination ==
    /\ [][(pc \in {"loop", "drain"} /\ mgr.early_termination
             /\ quality_sources_count < mgr.min_quality_sources
             /\ quality_sources_count' >= mgr.min_quality_sources) =>
            /\ early_terminated'
            /\ pc' = "gather"
            /\ \A i \in Sources :
                 Unfinished(i) => task'[i] \in {"cancelling", "cancel_race"}]_vars
    /\ [](early_terminated =>
            /\ pc \in {"gather", "returned"}
            /\ mgr.early_termination
            /\ \A i \in Sources :
                 Unfinished(i) =>
                   /\ task[i] \in {"cancelling", "cancel_race"}
                   /\ ENABLED (TaskCancelled(i) \/ TaskRaceCancelled(i))
            /\ Cardinality(QualityResults) >= mgr.min_quality_sources)

\* C9 witness: the coordinator returned after an early termination that needed two
\* quality results, while a scrape_url run was still in its thread and a task had
\* been cancelled while waiting for the semaphore
C9_Witness ==
    /\ pc = "returned"
    /\ early_terminated
    /\ mgr.min_quality_sources = 2
    /\ Cardinality(QualityResults) = 2
    /\ \E i \in Sources : fetch[i] = "running" /\ task[i] = "cancelled"
    /\ Len(results) < mgr.n

\* C10: when early termination fires, every task that has completed at that moment
\* has its result in the list that is returned, and so has a task that completes
\* as termination fires.
C10_CompletedResultsKept ==
    /\ [][(early_terminated' /\ ~early_terminated) =>
            \A i \in Sources :
              task[i] = "done" => \E k \in 1..Len(results') : results'[k].url = i]_vars
    /\ []((pc = "returned" /\ early_terminated) =>
            \A i \in Sources : task[i] = "done" => i \in ResultUrls)

\* the task has been cancelled, or its cancellation has been requested
Cancelled(i) == task[i] \in {"cancelling", "cancel_race", "cancelled"}

\* the result is a ScrapingResult that __post_init__ accepts
WellFormed(r) ==
    /\ r.success => (r.content # None /\ r.error = None)
    /\ ~r.success => (r.content = None /\ r.error # None)

\* the parts of C11 other than the independence of the timeouts: a finished
\* task holds a ScrapingResult for its own url, failed with an error or successful
\* with content, and no task is cancelled unless a quality result fired early
\* termination
C11_FailedResults ==
    /\ \A i \in Sources :
         task[i] = "done" =>
           /\ task_result[i].url = i
           /\ WellFormed(task_result[i])
    /\ \A i \in Sources :
         Cancelled(i) => (early_terminated /\ QualityResults # {})
    /\ \A k \in 1..Len(results) : WellFormed(results[k])

\* C11: a scrape_url that raises, returns None or times out gives a ScrapingResult
\* with success false and an error, nothing propagates to scrape_sources_parallel,
\* no task is cancelled unless a quality result fired early termination, and a
\* task's outcome comes from its own scrape_url run: a task that ends with the
\* timeout result had its scrape_url started.
C11_FailuresContained ==
    /\ C11_FailedResults
    /\ \A i \in Sources :
         (task[i] = "done" /\ task_result[i] = timeout_result(i)) =>
            fetch[i] # "cancelled"

\* the number of results in the list for source i
ResultCount(i) == Cardinality({k \in 1..Len(results) : results[k].url = i})

\* C12: with early termination disabled, the list scrape_sources_parallel returns
\* holds exactly one result for every source, the one its task produced, and
\* nothing else; for no sources the list is empty and no scrape_url is run.
C12_OneResultPerSource ==
    (pc = "returned" /\ ~mgr.early_termination) =>
       /\ Len(results) = mgr.n
       /\ \A i \in Sources :
            /\ ResultCount(i) = 1
            /\ task[i] = "done"
            /\ \E k \in 1..Len(results) : results[k] = task_result[i]
       /\ mgr.n = 0 => (results = <<>> /\ DOMAIN fetch = {})

\* C12 witness: three sources were scraped with early termination disabled; the
\* list returned holds a quality result, a failed fetch and a timeout
C12_Witness ==
    /\ pc = "returned"
    /\ ~mgr.early_termination
    /\ mgr.n = 3
    /\ Len(results) = 3
    /\ \E k \in 1..3 : should_terminate_early(results[k])
    /\ \E k \in 1..3 : results[k].error = "exception"
    /\ \E k \in 1..3 : results[k].error = "Timeout"

\* no task has so far produced content that passes the quality check
NoQualityContent ==
    \A i \in Sources : task[i] = "done" => task_result[i].content # "quality_content"

\* C13: with early termination enabled, as long as no task has produced quality
\* content, quality_sources_count is 0, early termination has not fired and no
\* task is cancelled; and the list then returned holds exactly one result for
\* every source, each with success false when every fetch failed.
C13_NoQualityNoTermination ==
    (pc # "none" /\ mgr.early_termination /\ NoQualityContent) =>
       /\ quality_sources_count = 0
       /\ ~early_terminated
       /\ \A i \in Sources : ~Cancelled(i)
       /\ pc = "returned" =>
            /\ Len(results) = mgr.n
            /\ \A i \in Sources :
                 /\ ResultCount(i) = 1
                 /\ \E k \in 1..Len(results) : results[k] = task_result[i]
            /\ (\A i \in Sources : ~task_result[i].success) =>
                 \A k \in 1..Len(results) : ~results[k].success

\* C13 witness: with early termination enabled and one quality source enough,
\* three sources all failed (a None, an exception and a timeout) and the list
\* returned holds the three failed results
C13_Witness ==
    /\ pc = "returned"
    /\ mgr.early_termination
    /\ mgr.min_quality_sources = 1
    /\ mgr.n = 3
    /\ Len(results) = 3
    /\ \A k \in 1..3 : ~results[k].success
    /\ \E k \in 1..3 : results[k].error = "Scraper returned None"
    /\ \E k \in 1..3 : results[k].error = "exception"
    /\ \E k \in 1..3 : results[k].error = "Timeout"
    /\ quality_sources_count = 0

(***************************************************************************)
(* Properties of the cache                                                 *)
(***************************************************************************)
\* the step is operation op leaving `with self._lock` and returning
ExitOf(op) == cache_lock # 0 /\ cache_lock' = 0 /\ last_done'.op = op

\* the step is operation op taking the lock
EnterOf(op) == cache_lock = 0 /\ cache_lock' # 0 /\ th'[cache_lock'].op = op

\* the entry was cached for a url and a query that normalize as url and query do
Matches(e, url, query) ==
    /\ normalized_url(e.url) = normalized_url(url)
    /\ e.query_hash = generate_query_hash(query)

\* the places of cache c that hold an entry for url and query
EntriesFor(c, url, query) == {k \in 1..Len(c) : Matches(c[k].entry, url, query)}

\* C14: when cache_content(x, q) returns, the cache holds exactly one entry for
\* (x.url, q), with content x and expiring ttl after it was built; the cleanup
\* that begins get_cached_content keeps every entry whose expiry time has not
\* passed and records neither hit nor miss; and get_cached_content(u, q) that
\* finds an entry for (u, q) whose expiry time has not passed returns its
\* content and records a hit, while one that finds no entry for (u, q), as for a
\* query that normalizes differently and was not cached, returns None and
\* records a miss.
C14_RoundTrip ==
    [][/\ ExitOf("cache_content") =>
            LET x == last_done'.args[1]
                q == last_done'.args[2]
                ttl == last_done'.args[3]
            IN  /\ Cardinality(EntriesFor(cache', x.url, q)) = 1
                /\ \A k \in EntriesFor(cache', x.url, q) :
                     /\ cache'[k].entry.content = x
                     /\ cache'[k].entry.expiry_time
                          = th[cache_lock].t0 + effective_ttl(ttl)
       /\ EnterOf("get_cached_content") =>
            /\ \A k \in 1..Len(cache) :
                 now <= cache[k].entry.expiry_time =>
                    \E j \in 1..Len(cache') : cache'[j] = cache[k]
            /\ statistics'.hits = statistics.hits
            /\ statistics'.misses = statistics.misses
       /\ ExitOf("get_cached_content") =>
            LET u == last_done'.args[1]
                q == last_done'.args[2]
            IN  /\ \A k \in EntriesFor(cache, u, q) :
                     now <= cache[k].entry.expiry_time =>
                       /\ last_done'.ret = <<cache[k].entry.content>>
                       /\ statistics'.hits = statistics.hits + 1
                       /\ statistics'.misses = statistics.misses
                /\ EntriesFor(cache, u, q) = {} =>
                       /\ last_done'.ret = <<>>
                       /\ statistics'.misses = statistics.misses + 1
                       /\ statistics'.hits = statistics.hits]_vars

\* C14 witness: content was cached under one spelling of its url for query q; a
\* lookup of that url for q returned it, and the next lookup of the url, for
\* query r, returned None: one hit and one miss
C14_Witness ==
    /\ last_done = Done("get_cached_content", <<(<<"A", "/">>), <<"r">>>>, <<>>)
    /\ ops = 3
    /\ statistics.hits = 1
    /\ statistics.misses = 1
    /\ Len(cache) = 1
    /\ cache[1].entry.content = EnhancedSource(<<"a">>)
    /\ cache[1].entry.query_hash = generate_query_hash(<<"q">>)
    /\ cache[1].entry.access_count = 1

\* C15: get_cached_content never returns an entry whose expiry time has passed.
\* The cleanup that begins the read leaves no such entry and records neither hit
\* nor miss; when the read returns, an entry for its url and query whose expiry
\* time has passed by then is gone from the cache, None is returned, one miss
\* and no hit are recorded; whatever the read returns is the content of an entry
\* whose expiry time has not passed; and no other step records a hit or a miss.
C15_ExpiredIsMiss ==
    [][/\ EnterOf("get_cached_content") =>
            /\ \A k \in 1..Len(cache') : now <= cache'[k].entry.expiry_time
            /\ statistics'.hits = statistics.hits
            /\ statistics'.misses = statistics.misses
       /\ ExitOf("get_cached_content") =>
            LET u == last_done'.args[1]
                q == last_done'.args[2]
            IN  /\ \A k \in EntriesFor(cache, u, q) :
                     now > cache[k].entry.expiry_time =>
                       /\ last_done'.ret = <<>>
                       /\ EntriesFor(cache', u, q) = {}
                       /\ Len(cache') = Len(cache) - 1
                       /\ statistics'.misses = statistics.misses + 1
                       /\ statistics'.hits = statistics.hits
                       /\ statistics'.total_requests = statistics.total_requests + 1
                /\ last_done'.ret # <<>> =>
                     \E k \in EntriesFor(cache, u, q) :
                       /\ now <= cache[k].entry.expiry_time
                       /\ last_done'.ret = <<cache[k].entry.content>>
       /\ (statistics'.hits # statistics.hits
             \/ statistics'.misses # statistics.misses) =>
            ExitOf("get_cached_content")]_vars

\* C15 witness: an entry cached at time 0 for 10 seconds was looked up at time
\* 30: the lookup returned None, the entry is gone, and the one read is a miss
C15_Witness ==
    /\ last_done = Done("get_cached_content", <<(<<"A", "/">>), <<"q">>>>, <<>>)
    /\ now = 30
    /\ ops = 2
    /\ cache = <<>>
    /\ statistics = [hits |-> 0, misses |-> 1, evictions |-> 1, total_requests |-> 1]

\* the step is cache_content returning after it found the cache holding max_size
\* entries, none of them for the url and query it stores
InsertsIntoFull ==
    /\ ExitOf("cache_content")
    /\ Len(cache) = cm.max_size
    /\ EntriesFor(cache, last_done'.args[1].url, last_done'.args[2]) = {}

\* place u of cache c holds the one entry that was never read, and every other
\* entry was read once all the entries had been cached
OnlyUnread(c, u) ==
    /\ c[u].entry.access_count = 0
    /\ \A k \in 1..Len(c) : k # u =>
         /\ c[k].entry.access_count > 0
         /\ \A j \in 1..Len(c) : c[k].entry.last_accessed >= c[j].entry.cached_at

\* cache d is cache c without the entry at place k, and with one new entry
EvictedAt(c, d, k) ==
    /\ Len(d) = Len(c)
    /\ SubSeq(d, 1, Len(d) - 1) = remove_at(c, k)

\* C16: inserting a new key into a cache that holds max_size unexpired entries
\* evicts exactly one entry, one with the oldest last_accessed, and when every
\* entry but one was read after the cache was filled, it evicts the unread one.
C16_EvictsLeastRecentlyUsed ==
    [][InsertsIntoFull =>
         /\ statistics'.evictions = statistics.evictions + 1
         /\ \E k \in 1..Len(cache) :
              /\ EvictedAt(cache, cache', k)
              /\ \A j \in 1..Len(cache) :
                   cache[k].entry.last_accessed <= cache[j].entry.last_accessed
         /\ \A u \in 1..Len(cache) :
              OnlyUnread(cache, u) => EvictedAt(cache, cache', u)]_vars

\* For max_size >= 1, the one entry evicted does have the least last_accessed.
C16_EvictsMinimalStamp ==
    [][InsertsIntoFull /\ cm.max_size >= 1 =>
         /\ statistics'.evictions = statistics.evictions + 1
         /\ \E k \in 1..Len(cache) :
              /\ EvictedAt(cache, cache', k)
              /\ \A j \in 1..Len(cache) :
                   cache[k].entry.last_accessed <= cache[j].entry.last_accessed]_vars

\* With max_size >= 1 and readings of the clock that differ from one operation
\* to the next, the unread entry is the one evicted.
C16_UnreadEvictedUnlessTied ==
    [][InsertsIntoFull /\ cm.max_size >= 1 =>
         \A u \in 1..Len(cache) :
            (/\ OnlyUnread(cache, u)
             /\ \A k \in 1..Len(cache) : k # u =>
                  cache[k].entry.last_accessed > cache[u].entry.last_accessed)
            => EvictedAt(cache, cache', u)]_vars

\* The second part of C16 for max_size >= 1; it fails when the reads and the
\* inserts all read the same time from the clock.
C16_UnreadEvicted ==
    [][InsertsIntoFull /\ cm.max_size >= 1 =>
         \A u \in 1..Len(cache) :
            OnlyUnread(cache, u) => EvictedAt(cache, cache', u)]_vars

\* C17: the number of stored entries never exceeds max_size, for every max_size
\* from 0 up.
C17_WithinCapacity == Len(cache) <= cm.max_size

\* For max_size >= 1 the number of stored entries never exceeds max_size.
C17_WithinPositiveCapacity == cm.max_size >= 1 => Len(cache) <= cm.max_size

\* C18: hits + misses = total_requests in every state; no step, clear_cache and
\* the invalidations included, decreases hits, misses, evictions or
\* total_requests; and total_requests grows by exactly one when a
\* get_cached_content returns and at no other step.
C18_Counters ==
    /\ [](statistics.hits + statistics.misses = statistics.total_requests)
    /\ [][/\ statistics'.hits >= statistics.hits
          /\ statistics'.misses >= statistics.misses
          /\ statistics'.evictions >= statistics.evictions
          /\ statistics'.total_requests >= statistics.total_requests
          /\ ExitOf("get_cached_content") =>
                statistics'.total_requests = statistics.total_requests + 1
          /\ ~ExitOf("get_cached_content") =>
                statistics'.total_requests = statistics.total_requests]_vars

\* C18 witness: after a hit and a miss, clear_cache removed the one entry and
\* the counters stand as they stood
C18_Witness ==
    /\ last_done = Done("clear_cache", <<>>, <<1>>)
    /\ cache = <<>>
    /\ statistics = [hits |-> 1, misses |-> 1, evictions |-> 0, total_requests |-> 2]

\* the lock is held by exactly the thread that is inside a locked region, and
\* while it stays held the step leaves the cache and the statistics as they are
HeldThroughout ==
    /\ \A t \in CacheThreads : th[t].pc = "locked" <=> cache_lock = t
    /\ cache_lock # 0 => cache_lock' \in {0, cache_lock}
    /\ cache_lock # 0 /\ cache_lock' = cache_lock =>
          cache' = cache /\ statistics' = statistics

\* every return of get_cached_content counts one request, as one hit or one
\* miss, and every entry that leaves the cache other than by clear_cache or by
\* being replaced counts one eviction
NoLostUpdate ==
    /\ ExitOf("get_cached_content") =>
          /\ statistics'.total_requests = statistics.total_requests + 1
          /\ statistics'.hits + statistics'.misses
                = statistics.hits + statistics.misses + 1
    /\ ~ExitOf("clear_cache") =>
          statistics'.evictions - statistics.evictions
             = Cardinality(CacheKeys(cache) \ CacheKeys(cache'))

\* what get_cached_content returns is the content of an entry that is in the
\* cache when it returns
ReturnsStoredEntry ==
    ExitOf("get_cached_content") /\ last_done'.ret # <<>> =>
       \E k \in 1..Len(cache') :
          /\ Matches(cache'[k].entry, last_done'.args[1], last_done'.args[2])
          /\ last_done'.ret = <<cache'[k].entry.content>>

\* C19: with several threads on one CacheManager the operations exclude each
\* other and are atomic: the lock is held across each operation's work on the
\* cache, no counter update is lost, the cache never holds more than max_size
\* entries, and no read returns an entry that is no longer stored.
C19_Serialized ==
    [][/\ HeldThroughout
       /\ NoLostUpdate
       /\ Len(cache') <= cm.max_size
       /\ ReturnsStoredEntry]_vars

\* All of C19 but the capacity holds for two threads.
C19_SerializedButCapacity ==
    [][HeldThroughout /\ NoLostUpdate /\ ReturnsStoredEntry]_vars

\* For max_size >= 1 two threads never bring the cache above max_size.
C19_WithinPositiveCapacity == cm.max_size >= 1 => Len(cache) <= cm.max_size

(***************************************************************************)
(* Properties of the circuit breaker under concurrent callers              *)
(***************************************************************************)
\* the wrapped functions that are executing through breaker n: that of the
\* direct caller and that of the caller of call_with_fallback
Executing(n) ==
    (IF result.op = "call" /\ result.name = n /\ result.outcome = "executing"
     THEN 1 ELSE 0)
    + (IF cwf.pc = "primary" /\ n = PRIMARY THEN 1 ELSE 0)
    + (IF cwf.pc = "fallback" /\ n = fallback_breaker THEN 1 ELSE 0)

\* C20: with concurrent callers on one breaker, at most one wrapped function
\* executes through it at a time (so at most one HALF_OPEN trial is in flight),
\* the lock is held exactly while one does, while it is held and not released
\* the breaker's state and counters stay as the admission left them, and
\* total_calls grows by exactly one with each call() that enters and at no
\* other step.
C20_AtomicCall ==
    [][\A n \in DOMAIN breakers :
         /\ Executing(n) <= 1
         /\ Executing(n)' <= 1
         /\ (lock[n] = "free") <=> (Executing(n) = 0)
         /\ lock[n] # "free" /\ lock'[n] # "free" =>
               /\ lock'[n] = lock[n]
               /\ breakers'[n] = breakers[n]
         /\ lock[n] = "free" /\ lock'[n] # "free" =>
               breakers'[n].total_calls = breakers[n].total_calls + 1
         /\ lock[n] = "free" =>
               breakers'[n].total_calls \in
                  {breakers[n].total_calls, breakers[n].total_calls + 1}
         /\ lock[n] # "free" =>
               breakers'[n].total_calls = breakers[n].total_calls]_vars

\* C20 witness: the caller of call_with_fallback has been through the primary
\* breaker and failed, the breaker opened, and now a direct caller's trial
\* executes in HALF_OPEN under the lock
C20_Witness ==
    /\ breakers[PRIMARY].state = HALF_OPEN
    /\ lock[PRIMARY] = "call"
    /\ result.outcome = "executing"
    /\ cwf.primary = "raised"
    /\ cwf.pc = "idle"
    /\ breakers[PRIMARY].total_calls = 4

(***************************************************************************)
(* Further properties of the circuit breakers                              *)
(***************************************************************************)
\* the breaker that the step's caller is in: call_with_fallback uses the
\* breaker of pollinations up to its except clause and that of huggingface from
\* there; a step of a direct caller leaves cwf alone and writes the breaker's
\* name into result; the clock's step uses none
ActsOn(n) ==
    IF cwf' # cwf
    THEN n = (IF cwf.pc \in {"idle", "primary"} THEN PRIMARY ELSE FALLBACK)
    ELSE now' = now /\ result'.name = n

\* C21: a call, failure, rejection, state transition or reset on one breaker,
\* inside call_with_fallback too, leaves the state, every counter and the lock
\* of every other breaker as they were.
C21_BreakersIndependent ==
    [][\A n \in DOMAIN breakers :
         ~ActsOn(n) => breakers'[n] = breakers[n] /\ lock'[n] = lock[n]]_vars

\* C21 witness: the primary breaker is OPEN after its failures and a reset of
\* the fallback breaker, which has calls and failures of its own, has just left
\* it so
C21_Witness ==
    /\ result.op = "reset" /\ result.name = FALLBACK
    /\ breakers[PRIMARY].state = OPEN
    /\ breakers[PRIMARY].failure_count = 3
    /\ breakers[FALLBACK].state = CLOSED
    /\ breakers[FALLBACK].total_failures >= 1
    /\ cwf.seen = "all_unavailable"

\* the changes of state a call() may make, with the part of call() that makes
\* them: the admission, the return of the wrapped function, or its raising
CallTransition(n, from, to) ==
    \/ from = OPEN /\ to = HALF_OPEN /\ lock[n] = "free" /\ lock'[n] # "free"
    \/ from = HALF_OPEN /\ to = CLOSED /\ Succeeded(n)
    \/ from = HALF_OPEN /\ to = OPEN /\ Failed(n)
    \/ from = CLOSED /\ to = OPEN /\ Failed(n)

\* C22: every change of state is either made by call(), and is then one of
\* OPEN -> HALF_OPEN at admission, HALF_OPEN -> CLOSED on a success,
\* HALF_OPEN -> OPEN or CLOSED -> OPEN on a failure, or is made by reset() and
\* ends in CLOSED.
C22_Transitions ==
    [][\A n \in DOMAIN breakers :
         breakers'[n].state # breakers[n].state =>
            IF result'.op = "reset"
            THEN breakers'[n].state = CLOSED /\ lock[n] = "free"
            ELSE CallTransition(n, breakers[n].state, breakers'[n].state)]_vars

\* C22 witness: with success_threshold 1 a single call found the breaker OPEN,
\* moved it to HALF_OPEN, succeeded and closed it
C22_Witness ==
    /\ result = CallResult(SERVICE, "returned", TRUE, OPEN)
    /\ config[SERVICE].success_threshold = 1
    /\ breakers[SERVICE].state = CLOSED
    /\ breakers[SERVICE].total_failures >= 1

(***************************************************************************)
(* Further properties of the scraping coordinator                          *)
(***************************************************************************)
\* the sources whose tasks have returned a result, in the order in which they
\* returned: those already taken by the loop, then those as_completed holds
ResultOrder == [k \in 1..Len(results) |-> results[k].url]
CompletionOrder == ResultOrder \o done_queue

\* the results in rs that line 88 counts as quality sources
CountedResults(rs) ==
    {k \in 1..Len(rs) :
        mgr.early_termination /\ rs[k].success /\ rs[k].content = "quality_content"}

\* C23: results holds the results in the order in which their tasks completed,
\* whatever the rank of their sources: a task that completes is put behind every
\* task that completed before it, the loop takes them in that order, and
\* quality_sources_count counts the quality results in that same order.
C23_CompletionOrder ==
    [][/\ \A i \in Sources :
            task[i] # "done" /\ task'[i] = "done" =>
               CompletionOrder' = Append(CompletionOrder, i)
       /\ (\A i \in Sources : task[i] # "done" => task'[i] # "done") =>
               CompletionOrder' = CompletionOrder
       /\ \A k \in 1..Len(results) : results'[k] = results[k]
       /\ quality_sources_count' = Cardinality(CountedResults(results'))]_vars

\* C23 witness: the call returned the result of source 2 before that of
\* source 1, and has counted the quality result of source 2
C23_Witness ==
    /\ pc = "returned"
    /\ Len(results) = 2
    /\ results[1].url = 2 /\ results[1].content = "quality_content"
    /\ results[2].url = 1 /\ results[2].success
    /\ quality_sources_count = 1

\* C24: scrape_sources_parallel returns in the end, even when a scrape_url never
\* returns, and when it has returned every task it created has finished or been
\* cancelled and every slot of the semaphore is free again.
C24_ReturnsWithTasksSettled ==
    /\ <>(pc = "returned")
    /\ [](pc = "returned" =>
            /\ \A i \in Sources : task[i] \in {"done", "cancelled"}
            /\ Holding = {}
            /\ value = mgr.max_concurrent)

\* C24 witness: the call has returned after an early termination that cancelled
\* a task, while the scrape_url of a task that timed out is still running in
\* its thread
C24_Witness ==
    /\ pc = "returned"
    /\ value = mgr.max_concurrent
    /\ \E i \in Sources : task[i] = "cancelled"
    /\ \E i \in Sources :
          /\ task[i] = "done"
          /\ task_result[i] = timeout_result(i)
          /\ fetch[i] = "running"

\* success implies content present, and not success implies error present
Valid(r) ==
    /\ r.success => r.content # None
    /\ ~r.success => r.error # None

\* C25: the construction of a ScrapingResult is refused with ValueError exactly
\* when success comes without content or failure comes without error, and every
\* result that a task has returned or that the coordinator holds, whether from
\* a success, a None return, a timeout or an exception, is accepted and has
\* content when successful and an error when not.
C25_ResultsValid ==
    /\ \A s \in BOOLEAN : \A c \in ContentFields : \A e \in ErrorFields :
          (post_init(ScrapingResult(1, s, c, e)) = "ValueError")
             <=> ~Valid(ScrapingResult(1, s, c, e))
    /\ \A i \in Sources :
          task[i] = "done" =>
             post_init(task_result[i]) = "accepted" /\ Valid(task_result[i])
    /\ \A k \in 1..Len(results) :
          post_init(results[k]) = "accepted" /\ Valid(results[k])

\* C25 witness: the call returned a successful result, the result of a timeout
\* and the result of an exception
C25_Witness ==
    /\ pc = "returned"
    /\ \E k \in 1..Len(results) : results[k].success /\ results[k].content # None
    /\ \E k \in 1..Len(results) : results[k] = timeout_result(results[k].url)
    /\ \E k \in 1..Len(results) : results[k].error = "exception"

(***************************************************************************)
(* Further properties of the cache                                         *)
(***************************************************************************)
\* the places of cache c whose entry is for a url that normalizes as url does
EntriesForUrl(c, url) ==
    {k \in 1..Len(c) : normalized_url(c[k].entry.url) = normalized_url(url)}

\* the places of cache c whose entry is for a query that normalizes as query does
EntriesForQuery(c, query) ==
    {k \in 1..Len(c) : c[k].entry.query_hash = generate_query_hash(query)}

\* cache d is cache c without the entries at the places gone, the others as
\* they were and in their order, and n is the number of places gone
RemovedExactly(c, d, gone, n) ==
    /\ n = <<Cardinality(gone)>>
    /\ d = SelectSeq(c, LAMBDA p : \A k \in gone : c[k] # p)

\* C26: invalidate_url(u) removes the entries whose normalized url is that of u
\* and no other, an entry for a url that has u as a prefix included, and returns
\* their number; invalidate_query(q) does the same for the entries whose
\* normalized query is that of q.
C26_InvalidateExactly ==
    [][/\ ExitOf("invalidate_url") =>
            RemovedExactly(cache, cache',
                           EntriesForUrl(cache, last_done'.args[1]), last_done'.ret)
       /\ ExitOf("invalidate_query") =>
            RemovedExactly(cache, cache',
                           EntriesForQuery(cache, last_done'.args[1]), last_done'.ret)]_vars

\* invalidate_query(q) removes the entries for q and no other, and
\* invalidate_url(u) removes every entry for u.
C26_InvalidateQueryExactly ==
    [][/\ ExitOf("invalidate_query") =>
            RemovedExactly(cache, cache',
                           EntriesForQuery(cache, last_done'.args[1]), last_done'.ret)
       /\ ExitOf("invalidate_url") =>
            EntriesForUrl(cache', last_done'.args[1]) = {}]_vars

(***************************************************************************)
(* Manual reset of a circuit breaker                                       *)
(***************************************************************************)
\* reset() has just run on breaker n
ResetOf(n) == result'.op = "reset" /\ result'.name = n /\ now' = now

\* the first call() on breaker n since its reset is being admitted
CallAfterReset(n) ==
    /\ result.op = "reset" /\ result.name = n
    /\ result'.op = "call" /\ result'.name = n

\* C29: reset() in any state leaves the breaker CLOSED with failure_count and
\* success_count at 0 and with total_calls, total_failures and
\* last_failure_time as they were, and the next call after it invokes the
\* wrapped function.
C29_Reset ==
    [][\A n \in DOMAIN breakers :
         /\ ResetOf(n) =>
               /\ breakers'[n].state = CLOSED
               /\ breakers'[n].failure_count = 0
               /\ breakers'[n].success_count = 0
               /\ breakers'[n].total_calls = breakers[n].total_calls
               /\ breakers'[n].total_failures = breakers[n].total_failures
               /\ breakers'[n].last_failure_time = breakers[n].last_failure_time
         /\ CallAfterReset(n) =>
               result' = CallResult(n, "executing", TRUE, CLOSED)]_vars

\* C29 witness: every earlier call failed and the last failure is more recent
\* than recovery_timeout, so the breaker was OPEN and would have rejected; it
\* was reset, and the call made since is executing the wrapped function
C29_Witness ==
    /\ result = CallResult(SERVICE, "executing", TRUE, CLOSED)
    /\ breakers[SERVICE].failure_count = 0
    /\ breakers[SERVICE].total_failures >= config[SERVICE].failure_threshold
    /\ breakers[SERVICE].total_failures = breakers[SERVICE].total_calls - 1
    /\ breakers[SERVICE].last_failure_time # NoTime
    /\ now - breakers[SERVICE].last_failure_time[1] < config[SERVICE].recovery_timeout

(***************************************************************************)
(* The derived percentages of the cache statistics                         *)
(***************************************************************************)
\* the percentage r is 0
IsZero(r) == r.num = 0

\* C30: as long as no request has been recorded (total_requests = 0) the hit
\* rate and the miss rate are both 0.
C30_RatesZeroWithoutRequests ==
    statistics.total_requests = 0 =>
        IsZero(hit_rate(statistics)) /\ IsZero(miss_rate(statistics))

\* Without requests the hit rate is 0 and the miss rate is 100; with requests
\* the two are the shares of hits and of misses in the requests.
C30_HitRateZeroWithoutRequests ==
    /\ statistics.total_requests = 0 =>
          /\ IsZero(hit_rate(statistics))
          /\ miss_rate(statistics) = Percent(100, 1)
    /\ statistics.total_requests > 0 =>
          /\ hit_rate(statistics) =
                Percent(100 * statistics.hits, statistics.total_requests)
          /\ miss_rate(statistics) =
                Percent(100 * statistics.misses, statistics.total_requests)

(***************************************************************************)
(* Properties of the pipeline of OptimizedSearchClient                     *)
(***************************************************************************)
\* the step is the turn of _check_cache's loop for the ranked source u
Checks(u) ==
    /\ client.pc = "check" /\ client'.pc = "check"
    /\ client'.k = client.k + 1
    /\ client.top_sources[client.k] = u

\* the step is the turn of _process_scraping_results' loop for the result r
Processes(r) ==
    /\ client.pc = "process" /\ client'.pc = "process"
    /\ client'.k = client.k + 1
    /\ client.scraped_results[client.k] = r

\* the places of cache c that hold an unexpired entry of the page at url for
\* query
UnexpiredFor(c, url, query) ==
    {i \in 1..Len(c) :
        /\ c[i].entry.url = HttpUrl(url)
        /\ c[i].entry.query_hash = generate_query_hash(query)
        /\ ~is_expired(c[i].entry, now)}

\* the places of cache c that hold an unexpired entry under the key of url and
\* query
UnexpiredUnderKey(c, url, query) ==
    {i \in 1..Len(c) :
        /\ c[i].key = generate_cache_key(url, query)
        /\ ~is_expired(c[i].entry, now)}

\* the ranked source u was fetched, passed the filter and was cached for this
\* query by an earlier request, and that entry's time has not run out
WrittenBefore(u) ==
    \E w \in client.written :
        /\ w.url = u
        /\ generate_query_hash(w.query) = generate_query_hash(client.query)
        /\ now <= w.expiry_time

\* the source of this turn is taken from the cache: its cached content joins
\* cached_sources and it is not handed to the scraper
TakenFromCache ==
    /\ client'.sources_to_scrape = client.sources_to_scrape
    /\ Len(client'.cached_sources) = Len(client.cached_sources) + 1

\* the result of this turn is in the cache afterwards, written now
Cached(r) ==
    \E i \in 1..Len(cache') :
        /\ cache'[i].entry.url = HttpUrl(r.url)
        /\ cache'[i].entry.query_hash = generate_query_hash(client.query)
        /\ cache'[i].entry.cached_at = now

\* C27: in search_and_scrape_multiple_sources a ranked source with an unexpired
\* cache entry for its url and the query is not handed to the scraper and its
\* cached content is used; every scraped result that succeeded and passes the
\* quality filter is written to the cache before the request returns; so a
\* source that an earlier request cached for the same query is not scraped
\* again before its entry expires.
C27_CachedNotFetchedAgain ==
    [][/\ \A u \in SourceUrls :
            Checks(u) /\ (UnexpiredFor(cache, u, client.query) # {} \/ WrittenBefore(u))
               => TakenFromCache
       /\ \A u \in SourceUrls : \A c \in {"quality_content", "poor_content"} :
            Processes(ScrapingResult(u, TRUE, c, None)) /\ passes_quality_filter(c)
               => Cached(ScrapingResult(u, TRUE, c, None))]_vars

\* the cache key of the url is the one its EnhancedSource is cached under
KeptByHttpUrl(u) == normalized_url(HttpUrl(u)) = normalized_url(u)

\* A ranked source with an unexpired entry under its own cache key is taken
\* from the cache; every result that passes the filter is cached; a source
\* whose url gives the same key before and after HttpUrl is not scraped again
\* before the entry that an earlier request wrote expires.
C27_CachedUnderKeyNotFetchedAgain ==
    [][/\ \A u \in SourceUrls :
            Checks(u) /\ (\/ UnexpiredUnderKey(cache, u, client.query) # {}
                          \/ WrittenBefore(u) /\ KeptByHttpUrl(u))
               => TakenFromCache
       /\ \A u \in SourceUrls :
            Checks(u) /\ UnexpiredUnderKey(cache, u, client.query) = {}
               => /\ client'.sources_to_scrape = Append(client.sources_to_scrape, u)
                  /\ client'.cached_sources = client.cached_sources
       /\ \A u \in SourceUrls : \A c \in {"quality_content", "poor_content"} :
            Processes(ScrapingResult(u, TRUE, c, None)) /\ passes_quality_filter(c)
               => Cached(ScrapingResult(u, TRUE, c, None))]_vars

(***************************************************************************)
(* Properties of EnhancedAgent                                             *)
(***************************************************************************)
\* the answers that are made without the AI services
FallbackAnswers ==
    {"fallback_summary", "no_sources_found", "basic_response", "no_sources_apology"}

BreakerSet == {PRIMARY, FALLBACK} \subseteq DOMAIN config

\* C31: in every breaker set the system builds, the primary's
\* failure_threshold is at most the fallback's and its recovery_timeout is at
\* most the fallback's.
C31_PrimaryFailsFast ==
    BreakerSet =>
        /\ config[PRIMARY].failure_threshold <= config[FALLBACK].failure_threshold
        /\ config[PRIMARY].recovery_timeout <= config[FALLBACK].recovery_timeout

\* The primary's recovery_timeout is at most the fallback's in every breaker
\* set; its failure_threshold is at most the fallback's in the set that
\* AIServiceCircuitBreaker constructs, and is 10 against 5 in the set of an
\* EnhancedAgent, whose fallback can be OPEN after five failed requests while
\* the primary, having failed as often, is still CLOSED.
C31_PrimaryRecoversFaster ==
    BreakerSet =>
        /\ config[PRIMARY].recovery_timeout <= config[FALLBACK].recovery_timeout
        /\ config = AIServiceConfig =>
              config[PRIMARY].failure_threshold <= config[FALLBACK].failure_threshold
        /\ config = EnhancedAgentConfig =>
              /\ config[PRIMARY].failure_threshold > config[FALLBACK].failure_threshold
              /\ breakers[PRIMARY].state = CLOSED

\* the fallback of an EnhancedAgent has opened while the primary, with as many
\* consecutive failures, has not
C31_FallbackOpensFirst ==
    /\ config = EnhancedAgentConfig
    /\ breakers[FALLBACK].state = OPEN
    /\ breakers[PRIMARY].state = CLOSED
    /\ breakers[PRIMARY].failure_count >= breakers[FALLBACK].failure_count

(***************************************************************************)
(* Invariants of the state and the counters of a circuit breaker           *)
(***************************************************************************)
\* C38: in every reachable state of a breaker with failure_threshold >= 1, CLOSED
\* implies failure_count < failure_threshold, OPEN implies last_failure_time is
\* set, and total_failures <= total_calls.
C38_BreakerInvariant ==
    \A n \in DOMAIN breakers :
        config[n].failure_threshold >= 1 =>
          /\ breakers[n].state = CLOSED =>
                breakers[n].failure_count < config[n].failure_threshold
          /\ breakers[n].state = OPEN => breakers[n].last_failure_time # NoTime
          /\ breakers[n].total_failures <= breakers[n].total_calls

\* C38 witness: a breaker that has opened, was tried and closed again, and has
\* since failed up to one failure short of its threshold; some of its calls did
\* not fail
C38_Witness ==
    /\ breakers[SERVICE].state = CLOSED
    /\ config[SERVICE].failure_threshold >= 2
    /\ breakers[SERVICE].failure_count = config[SERVICE].failure_threshold - 1
    /\ breakers[SERVICE].total_failures > config[SERVICE].failure_threshold
    /\ breakers[SERVICE].total_calls > breakers[SERVICE].total_failures
    /\ result = CallResult(SERVICE, "raised", TRUE, CLOSED)

(***************************************************************************)
(* The trial successes that close a breaker                                *)
(***************************************************************************)
\* the step moves breaker n into HALF_OPEN
EntersHalfOpen(n) == breakers[n].state # HALF_OPEN /\ breakers'[n].state = HALF_OPEN

\* C37: whenever the breaker enters HALF_OPEN its success_count is 0; while it
\* is HALF_OPEN success_count is the number of calls that have succeeded since
\* it entered; and the call that closes it is exactly the success_threshold-th
\* of them.
C37_TrialSuccessesClose ==
    [][\A n \in DOMAIN breakers :
        /\ EntersHalfOpen(n) =>
              /\ breakers[n].state = OPEN
              /\ breakers'[n].success_count = 0
              /\ trials'[n] = 0
        /\ breakers'[n].state = HALF_OPEN =>
              breakers'[n].success_count = trials'[n]
        /\ (breakers[n].state = HALF_OPEN /\ Succeeded(n)) =>
              (breakers'[n].state = CLOSED <=>
                  trials[n] + 1 = config[n].success_threshold)]_vars

\* C37 witness: a breaker with success_threshold of at least 2, opened by its
\* one failure, was closed by a trial call made in HALF_OPEN as soon as
\* recovery_timeout had elapsed, and more calls were made on it than that
\* failure and the success_threshold trials
C37_Witness ==
    /\ breakers[SERVICE].state = CLOSED
    /\ result = CallResult(SERVICE, "returned", TRUE, HALF_OPEN)
    /\ config[SERVICE].success_threshold >= 2
    /\ config[SERVICE].failure_threshold = 1
    /\ breakers[SERVICE].total_failures = 1
    /\ breakers[SERVICE].last_failure_time = <<30>>
    /\ now = 30 + config[SERVICE].recovery_timeout
    /\ breakers[SERVICE].total_calls > 1 + config[SERVICE].success_threshold

(***************************************************************************)
(* Recovery of an OPEN breaker                                             *)
(***************************************************************************)
\* the step is a call() on breaker n being rejected
Rejected(n) == Entered(n) /\ result' = CallResult(n, "rejected", FALSE, OPEN)

\* the last value the clock takes
LastReading == (MaxTime \div TickStep) * TickStep

\* breaker n is OPEN and the clock will reach recovery_timeout after its last failure
OpenAndRecoverable(n) ==
    /\ breakers[n].state = OPEN
    /\ breakers[n].last_failure_time # NoTime
    /\ breakers[n].last_failure_time[1] + config[n].recovery_timeout <= LastReading

\* C36: a rejected call leaves last_failure_time as it was; a call made once
\* recovery_timeout has elapsed since the last failure of the wrapped function is
\* admitted as a HALF_OPEN trial; and so, as time passes and calls keep
\* arriving, an OPEN breaker comes to be due for a trial and leaves OPEN.
C36_RejectionsDoNotPostpone ==
    /\ [][/\ Rejected(SERVICE) =>
                breakers'[SERVICE].last_failure_time =
                    breakers[SERVICE].last_failure_time
          /\ (Entered(SERVICE) /\ OpenAndDue(SERVICE)) =>
                /\ breakers'[SERVICE].state = HALF_OPEN
                /\ result' = CallResult(SERVICE, "executing", TRUE, OPEN)]_vars
    /\ OpenAndRecoverable(SERVICE) ~>
          (OpenAndDue(SERVICE) \/ breakers[SERVICE].state # OPEN)
    /\ (OpenAndDue(SERVICE) /\ breakers[SERVICE].total_calls < MaxCalls) ~>
          breakers[SERVICE].state # OPEN

\* C36 witness: a call made exactly recovery_timeout after the last failure is
\* running as the HALF_OPEN trial, and before it more calls were made on the
\* breaker than the failure_threshold failures that opened it
C36_Witness ==
    /\ breakers[SERVICE].state = HALF_OPEN
    /\ result = CallResult(SERVICE, "executing", TRUE, OPEN)
    /\ breakers[SERVICE].last_failure_time # NoTime
    /\ Elapsed(SERVICE) = config[SERVICE].recovery_timeout
    /\ breakers[SERVICE].total_failures = config[SERVICE].failure_threshold
    /\ breakers[SERVICE].last_failure_time[1] = 0
    /\ breakers[SERVICE].total_calls > breakers[SERVICE].total_failures + 1

(***************************************************************************)
(* cache_content on a key that is present                                  *)
(***************************************************************************)
\* the key that the cache_content call leaving the lock was made for
StoredKey == generate_cache_key(last_done'.args[1].url, last_done'.args[2])

\* cache_content is leaving the lock and found its key present when it came to
\* line 220
Replaces == ExitOf("cache_content") /\ StoredKey \in CacheKeys(cache)

\* the entries of c other than the one under key are those of d, in the same
\* order and at the same places
OthersUnchanged(c, d, key) ==
    /\ Len(d) = Len(c)
    /\ \A j \in 1..Len(c) : c[j].key # key => d[j] = c[j]

\* the entry under key in d is new: never accessed, with the times of item
Restarted(d, key, item) ==
    LET e == d[index_of(d, key)].entry IN
    /\ e.access_count = 0
    /\ e.cached_at = item.cached_at
    /\ e.expiry_time = item.expiry_time
    /\ e.last_accessed = item.cached_at
    /\ e.content = item.content

\* the CachedContent that the call leaving the lock built before it took the lock
StoredItem ==
    CachedContent(last_done'.args[1], last_done'.args[2],
                  effective_ttl(last_done'.args[3]), th[cache_lock].t0)

Submits(i) == fetch[i] = "none" /\ fetch'[i] # "none"

\* the step is an executor thread starting scrape_url of source i
Invokes(i) == fetch[i] # "running" /\ fetch'[i] = "running"

\* C35: once early termination has fired, no task that was waiting for the
\* semaphore invokes scrape_url, and no scrape_url of the batch starts: every
\* invocation started before the termination decision.
C35_NoFetchAfterTermination ==
    [][early_terminated =>
          \A i \in Sources : ~Submits(i) /\ ~Invokes(i)]_vars

\* Once early termination has fired, no task that was waiting for the semaphore
\* is admitted and none hands a scrape_url to the executor; a scrape_url starts
\* after the decision only for a task that was admitted before it and whose
\* scrape_url was kept in the executor's queue by busy threads.
C35_NoAdmissionAfterTermination ==
    [][early_terminated =>
          \A i \in Sources :
             /\ ~Submits(i)
             /\ task[i] = "waiting" => task'[i] = "waiting"
             /\ Invokes(i) => fetch[i] = "queued" /\ task[i] = "cancelling"]_vars

(***************************************************************************)
(* Cache warming                                                           *)
(***************************************************************************)
\* the cache_content that leaves the lock was called by warm_cache_for_query,
\* which counts it in cached_count
WarmerCaches == ExitOf("cache_content") /\ th[cache_lock].warm # <<>>

\* the operation that left the lock before this one was the cache_content that
\* another warm_cache_for_query returned after
AfterAnotherWarmer == last_done.warm # <<>> /\ last_done.op = "cache_content"

\* C34: warm_cache_for_query caches only the sources that are not already
\* cached for the query and returns the number of entries it added, also when
\* two warmers run on the same CacheManager: a cache_content that a warmer
\* counts, made after another warmer has returned, puts an entry under a key
\* that had none, and the number a warmer returns is the number of the
\* cache_content calls it made.
C34_WarmAddsOnlyAbsent ==
    [][/\ (WarmerCaches /\ AfterAnotherWarmer) =>
             /\ StoredKey \notin CacheKeys(cache)
             /\ StoredKey \in CacheKeys(cache')
       /\ (ExitOf("cache_content") \/ ExitOf("get_cached_content")) =>
             (last_done'.warm # <<>> =>
                 last_done'.warm = <<warm_count(th[cache_lock])>>)]_vars

\* With one thread on the CacheManager every cache_content that
\* warm_cache_for_query counts puts an entry under a key that had none.
C34_WarmAddsOnlyAbsentAlone ==
    [][(WarmerCaches /\ cm.threads = 1) =>
          /\ StoredKey \notin CacheKeys(cache)
          /\ StoredKey \in CacheKeys(cache')]_vars

(***************************************************************************)
(* Properties of should_continue_scraping                                  *)
(***************************************************************************)

\* should_continue_scraping has returned
Assessed == assessor # <<>> /\ assessor.pc = "returned"

\* the quality, non-duplicate sources of the gathered content
Quality == quality_content(assessor, assessor.gathered_content)

\* C33: should_continue_scraping returns true exactly when the quality,
\* non-duplicate sources number fewer than sufficient_content_threshold, or
\* fewer than 2 of them have relevance >= 0.8 and their combined length is
\* below 1000; it returns true for an empty list
C33_ContinueRule ==
    Assessed =>
        assessor.returned =
            <<\/ assessor.gathered_content = <<>>
              \/ Len(Quality) < assessor.sufficient_content_threshold
              \/ /\ Len(high_relevance_content(Quality)) < 2
                 /\ total_content_length(Quality) < SubstantialLength>>

\* C33, the other reading of the sentence: fewer than the threshold or fewer
\* than 2 of high relevance, and a combined length below 1000
C33_ContinueRuleGrouped ==
    Assessed =>
        assessor.returned =
            <<\/ assessor.gathered_content = <<>>
              \/ /\ \/ Len(Quality) < assessor.sufficient_content_threshold
                    \/ Len(high_relevance_content(Quality)) < 2
                 /\ total_content_length(Quality) < SubstantialLength>>

\* C33, what holds: the function returns true for an empty list, false once
\* the quality sources reach the threshold, and below the threshold false
\* only for 2 sources of high relevance with a combined length of 1000
C33_StopsAtThreshold ==
    Assessed =>
        /\ assessor.gathered_content = <<>> => assessor.returned = <<TRUE>>
        /\ Len(Quality) >= assessor.sufficient_content_threshold
              => assessor.returned = <<FALSE>>
        /\ (/\ assessor.gathered_content # <<>>
            /\ Len(Quality) < assessor.sufficient_content_threshold)
              => assessor.returned =
                    <<\/ Len(high_relevance_content(Quality)) < 2
                      \/ total_content_length(Quality) < SubstantialLength>>

\* C33: the default threshold of 3 is reached by three sources of moderate
\* relevance and little text, and the function has returned false
C33_StoppedOnModerateSources ==
    /\ Assessed
    /\ assessor.sufficient_content_threshold = 3
    /\ Len(Quality) = 3
    /\ high_relevance_content(Quality) = <<>>
    /\ total_content_length(Quality) < SubstantialLength
    /\ assessor.returned = <<FALSE>>

(***************************************************************************)
(* Properties of rank_sources                                              *)
(***************************************************************************)

\* the SourceScore that rank_sources makes of the i-th search result
InputScore(i) == score_source(ranker.search_results[i], ranker.query_analysis)

\* out is the SourceScores of the search results, each once, the higher
\* final_score first and, of two with the same final_score, the one that
\* came first in the search results first
StablyRanked(out) ==
    /\ Len(out) = Len(ranker.search_results)
    /\ \E p \in Permutations(DOMAIN ranker.search_results) :
          /\ \A i \in DOMAIN out : out[i] = InputScore(p[i])
          /\ \A i, j \in DOMAIN out :
                i < j => \/ out[i].final_score > out[j].final_score
                         \/ /\ out[i].final_score = out[j].final_score
                            /\ p[i] < p[j]

====
